---- MODULE Spec2Model ----
(***************************************************************************)
(* A model of the Apple II Pascal p-code disassembler: the segment         *)
(* dictionary parser and the procedure walker of src/src/main.rs, the      *)
(* instruction decoders of src/src/main.rs and src/src/disasm.rs, and the  *)
(* readers beneath them.                                                   *)
(*                                                                         *)
(* Conventions.  A byte buffer is a sequence of numbers in 0..255; the     *)
(* byte at offset o is buf[o + 1].  A usize value v is written as the      *)
(* integer v when it is below 2^63 and as v - 2^64 otherwise, so that a    *)
(* subtraction that wraps below zero in a build without overflow checks    *)
(* is a negative number here; ULe and ULt compare two such values as the   *)
(* machine does.  Every fallible operation yields a record                 *)
(* [st, code, val]: st is "ok" (Ok(val)), "err" (Err(val), a returned      *)
(* std::io::Error) or "panic" (the process aborts), and code is the        *)
(* reader as the operation left it.                                        *)
(***************************************************************************)
EXTENDS Integers, Sequences, FiniteSets, TLC

VARIABLES
  overflow_checks,  \* the build: TRUE when arithmetic overflow panics (debug), FALSE when it wraps (release)
  codefile,         \* the bytes of the file the running operation was given
  info,             \* the SegmentInfo handed to dump_segment
  code,             \* the Reader / PCodeReader: [segment, cursor, jtab]
  exit_addr,        \* exit_addr of disassemble, exit_at of dump_p_code
  footer_start,     \* footer_start of the procedure dump_segment is in
  proc_i,           \* the loop variable i of dump_segment
  procs,            \* what dump_segment derived for each procedure so far
  listing,          \* the instructions printed so far
  op_start,         \* the cursor when the last operation began
  last,             \* the result of the last operation applied
  pc                \* where the program is

vars == <<overflow_checks, codefile, info, code, exit_addr, footer_start,
          proc_i, procs, listing, op_start, last, pc>>

\* ------------------------------------------------------------ numbers

Min(a, b) == IF a <= b THEN a ELSE b

\* Bit k of v (of its two's complement form when v is negative).
Bit(v, k) == (v \div (2 ^ k)) % 2

\* Rust's & and | on the low 16 bits, which is all that the operands here have
\* (a byte against a mask, or the cursor against 1).
BitAnd(a, b) ==
  LET t(k) == Bit(a, k) * Bit(b, k) * (2 ^ k)
  IN t(0) + t(1) + t(2) + t(3) + t(4) + t(5) + t(6) + t(7)
       + t(8) + t(9) + t(10) + t(11) + t(12) + t(13) + t(14) + t(15)

BitOr(a, b) ==
  LET t(k) == (IF Bit(a, k) = 1 \/ Bit(b, k) = 1 THEN 1 ELSE 0) * (2 ^ k)
  IN t(0) + t(1) + t(2) + t(3) + t(4) + t(5) + t(6) + t(7)
       + t(8) + t(9) + t(10) + t(11) + t(12) + t(13) + t(14) + t(15)

\* a <= b and a < b on usize values (a negative number is a value of 2^63 or more).
ULe(a, b) == IF (a >= 0) = (b >= 0) THEN a <= b ELSE a >= 0
ULt(a, b) == IF (a >= 0) = (b >= 0) THEN a < b ELSE a >= 0

\* The result of a fallible operation.
Ok(c, v) == [st |-> "ok", code |-> c, val |-> v]
Err(c, e) == [st |-> "err", code |-> c, val |-> e]
Panic(c, m) == [st |-> "panic", code |-> c, val |-> m]

\* a - b on usize: below zero it panics with overflow checks and wraps without.
USub(c, a, b) ==
  IF a - b >= 0 \/ a < 0 THEN Ok(c, a - b)
  ELSE IF overflow_checks THEN Panic(c, "attempt to subtract with overflow")
  ELSE Ok(c, a - b)

\* u16 and i16 from two bytes, little-endian (byteorder's LittleEndian); i8 from one.
U16LE(lo, hi) == lo + 256 * hi
I16LE(lo, hi) == IF U16LE(lo, hi) >= 32768 THEN U16LE(lo, hi) - 65536 ELSE U16LE(lo, hi)
I8(b) == IF b >= 128 THEN b - 256 ELSE b

\* A result handed to an operator that looks at it more than once is bound by
\* a set constructor first, so that it is evaluated once wherever the operator
\* is used:  CHOOSE res \in {f(v) : v \in {e}} : TRUE  is  f(e).

\* impl Read for &[u8]: the slice hands out what it has and shrinks.
slice_read(c, n) ==
  Ok([c EXCEPT !.cursor = @ + Min(n, Len(c.segment) - c.cursor)],
     SubSeq(c.segment, c.cursor + 1, c.cursor + Min(n, Len(c.segment) - c.cursor)))

\* The read of Reader without `self.cursor += n`.
Reader_read_in_place(c, n) ==
  IF c.cursor < 0 \/ c.cursor > Len(c.segment)
  THEN Panic(c, "range start index out of range")
  ELSE Ok(c, slice_read(c, n).val)

\* impl Read for Reader
Reader_read(c, n) ==
  IF c.cursor < 0 \/ c.cursor > Len(c.segment)
  THEN Panic(c, "range start index out of range")
  ELSE slice_read(c, n)

\* impl Read for PCodeReader
PCodeReader_read(c, n) ==
  IF c.cursor < 0 \/ c.cursor > Len(c.segment)
  THEN Panic(c, "range start index out of range")
  ELSE slice_read(c, n)

\* <impl as Read>::read
Read(impl, c, n) ==
  CASE impl = "Reader" -> Reader_read(c, n)
    [] impl = "PCodeReader" -> PCodeReader_read(c, n)
    [] impl = "slice" -> slice_read(c, n)

\* std's Read::read_exact over a reader of type impl: it reads until the
\* buffer of n bytes is full, and a read of 0 bytes ends it with UnexpectedEof.
RECURSIVE read_exact_loop(_, _, _, _)
read_exact_loop(impl, n, got, r) ==
  IF r.st # "ok" THEN r
  ELSE IF Len(r.val) = 0 THEN Err(r.code, "UnexpectedEof")
  ELSE IF Len(r.val) = n THEN Ok(r.code, got \o r.val)
  ELSE (CHOOSE res \in {read_exact_loop(impl, v1, got \o r.val, v2) : v1 \in {n - Len(r.val)}, v2 \in {Read(impl, r.code, n - Len(r.val))}} : TRUE)

read_exact(impl, c, n) ==
  IF n = 0 THEN Ok(c, <<>>) ELSE (CHOOSE res \in {read_exact_loop(impl, n, <<>>, v3) : v3 \in {Read(impl, c, n)}} : TRUE)

\* The value of type ty that the bytes b hold, little-endian (byteorder's
\* LittleEndian), and a whole buffer of them.
from_le_bytes(ty, b) ==
  CASE ty = "u8" -> b[1]
    [] ty = "i8" -> I8(b[1])
    [] ty = "u16" -> U16LE(b[1], b[2])
    [] ty = "i16" -> I16LE(b[1], b[2])
    [] ty = "[u16]" -> [k \in 1..(Len(b) \div 2) |-> U16LE(b[2 * k - 1], b[2 * k])]
    [] ty = "[i16]" -> [k \in 1..(Len(b) \div 2) |-> I16LE(b[2 * k - 1], b[2 * k])]

read_as(ty, r) == IF r.st = "ok" THEN Ok(r.code, from_le_bytes(ty, r.val)) ELSE r

\* byteorder's ReadBytesExt over a reader of type impl.
read_u8(impl, c) == (CHOOSE res \in {read_as("u8", v4) : v4 \in {read_exact(impl, c, 1)}} : TRUE)

read_i8(impl, c) == (CHOOSE res \in {read_as("i8", v5) : v5 \in {read_exact(impl, c, 1)}} : TRUE)

read_u16(impl, c) == (CHOOSE res \in {read_as("u16", v6) : v6 \in {read_exact(impl, c, 2)}} : TRUE)

read_i16(impl, c) == (CHOOSE res \in {read_as("i16", v7) : v7 \in {read_exact(impl, c, 2)}} : TRUE)

read_u16_into(impl, c, n) == (CHOOSE res \in {read_as("[u16]", v8) : v8 \in {read_exact(impl, c, 2 * n)}} : TRUE)

read_i16_into(impl, c, n) == (CHOOSE res \in {read_as("[i16]", v9) : v9 \in {read_exact(impl, c, 2 * n)}} : TRUE)

\* &buf[from..]: a start beyond the end panics.
SliceFrom(buf, from) ==
  IF from < 0 \/ from > Len(buf)
  THEN Panic([segment |-> buf, cursor |-> 0, jtab |-> 0], "range start index out of range")
  ELSE Ok([segment |-> buf, cursor |-> from, jtab |-> 0], from)

\* i16 arithmetic without overflow checks: the value wrapped into -32768..32767.
WrapI16(v) == ((v + 98304) % 65536) - 32768

\* ------------------------------------------------------------ text

\* u8::is_ascii_whitespace
IsAsciiWhitespace(b) == b \in {9, 10, 12, 13, 32}

RECURSIVE TrimStart(_)
TrimStart(s) ==
  IF s # <<>> /\ IsAsciiWhitespace(s[1]) THEN TrimStart(Tail(s)) ELSE s

RECURSIVE TrimEnd(_)
TrimEnd(s) ==
  IF s # <<>> /\ IsAsciiWhitespace(s[Len(s)]) THEN TrimEnd(SubSeq(s, 1, Len(s) - 1)) ELSE s

\* str::trim_ascii
trim_ascii(s) == TrimEnd(TrimStart(s))

\* std::str::from_utf8 accepts s
IsCont(s, k) == k <= Len(s) /\ s[k] \in 128..191

RECURSIVE IsUtf8(_)
IsUtf8(s) ==
  IF s = <<>> THEN TRUE
  ELSE CASE s[1] < 128 -> IsUtf8(Tail(s))
         [] s[1] \in 194..223 -> IsCont(s, 2) /\ IsUtf8(SubSeq(s, 3, Len(s)))
         [] s[1] \in 224..239 ->
              /\ IsCont(s, 2) /\ IsCont(s, 3)
              /\ (s[1] = 224 => s[2] >= 160)
              /\ (s[1] = 237 => s[2] <= 159)
              /\ IsUtf8(SubSeq(s, 4, Len(s)))
         [] s[1] \in 240..244 ->
              /\ IsCont(s, 2) /\ IsCont(s, 3) /\ IsCont(s, 4)
              /\ (s[1] = 240 => s[2] >= 144)
              /\ (s[1] = 244 => s[2] <= 143)
              /\ IsUtf8(SubSeq(s, 5, Len(s)))
         [] OTHER -> FALSE

\* CrateReadExt::read_string of read.rs: len bytes, as trimmed text.
read_string(impl, c, len) ==
  LET text(r) ==
        IF r.st # "ok" THEN r
        ELSE IF ~IsUtf8(r.val) THEN Err(r.code, "InvalidData")
        ELSE Ok(r.code, trim_ascii(r.val))
  IN (CHOOSE res \in {text(v10) : v10 \in {read_exact(impl, c, len)}} : TRUE)

\* read_string of main.rs
main_read_string(impl, c, len) ==
  LET text(r) ==
        IF r.st # "ok" THEN r
        ELSE IF ~IsUtf8(r.val) THEN Err(r.code, "InvalidData")
        ELSE Ok(r.code, trim_ascii(r.val))
  IN (CHOOSE res \in {text(v11) : v11 \in {read_exact(impl, c, len)}} : TRUE)

\* println!("MN ...", a?, b?): the operands are evaluated left to right, the
\* first failure is returned, and otherwise the line [mn, args] is printed.
Print0(mn, c) == Ok(c, [mn |-> mn, args |-> <<>>])

Print1(mn, r) ==
  IF r.st # "ok" THEN r ELSE Ok(r.code, [mn |-> mn, args |-> <<r.val>>])

Print2(mn, r1, r2) ==
  IF r1.st # "ok" THEN r1
  ELSE IF r2.st # "ok" THEN r2
  ELSE Ok(r2.code, [mn |-> mn, args |-> <<r1.val, r2.val>>])

\* ------------------------------------------------------------ disasm.rs

\* A reader that is left where it is, on an odd offset too.
Reader_align_to_byte(c) == c

\* Reader::align_to_word
Reader_align_to_word(c) ==
  IF BitAnd(c.cursor, 1) # 0 THEN [c EXCEPT !.cursor = @ + 1] ELSE c

\* Reader::read_jump_table: checked_add_signed, the slice, read_u16 and their
\* unwraps panic; the subtraction follows the build.
Reader_read_jump_table(c, sb) ==
  LET entry(i, w) ==
        IF w.st # "ok" THEN Panic(c, "called Result::unwrap() on an Err value")
        ELSE USub(c, i, w.val)
      slice(i, s) ==
        IF s.st # "ok" THEN Panic(c, s.val) ELSE (CHOOSE res \in {entry(i, v12) : v12 \in {read_u16("slice", s.code)}} : TRUE)
      index(i) ==
        IF i < 0 THEN Panic(c, "called Option::unwrap() on a None value")
        ELSE (CHOOSE res \in {slice(i, v13) : v13 \in {SliceFrom(c.segment, i)}} : TRUE)
  IN index(c.jtab + sb)

\* Word
do_w(c) == read_i16("Reader", c)

\* do_b with the two bytes combined as a shifted pair.
do_b_shifted(c) ==
  LET second(v, r) ==
        IF r.st # "ok" THEN r ELSE Ok(r.code, BitAnd(v, 127) * 256 + r.val)
      first(v) ==
        IF v.st # "ok" THEN v
        ELSE IF BitAnd(v.val, 128) # 0 THEN (CHOOSE res \in {second(v.val, v14) : v14 \in {read_u8("Reader", v.code)}} : TRUE)
        ELSE v
  IN (CHOOSE res \in {first(v15) : v15 \in {read_u8("Reader", c)}} : TRUE)

\* Big: one or two-byte sized word
do_b(c) ==
  LET second(v, r) ==
        IF r.st # "ok" THEN r ELSE Ok(r.code, BitOr(BitAnd(v, 127), r.val))
      first(v) ==
        IF v.st # "ok" THEN v
        ELSE IF BitAnd(v.val, 128) # 0 THEN (CHOOSE res \in {second(v.val, v16) : v16 \in {read_u8("Reader", v.code)}} : TRUE)
        ELSE v
  IN (CHOOSE res \in {first(v17) : v17 \in {read_u8("Reader", c)}} : TRUE)

\* Don't Care Byte
do_db(c) == read_u8("Reader", c)

\* Unsigned Byte
do_ub(c) == read_u8("Reader", c)

\* Signed Byte
do_sb(c) == read_i8("Reader", c)

\* The operand is <<n, w1, ..., wn>>.
do_ldc_args(c) ==
  LET words(n, data) ==
        IF data.st # "ok" THEN data ELSE Ok(data.code, <<n>> \o data.val)
      count(n) ==
        IF n.st # "ok" THEN n
        ELSE IF n.val > 0
             THEN (CHOOSE res \in {words(n.val, v18) : v18 \in {read_u16_into("Reader", Reader_align_to_word(n.code), n.val)}} : TRUE)
             ELSE Ok(n.code, <<0>>)
  IN (CHOOSE res \in {count(v19) : v19 \in {do_ub(c)}} : TRUE)

\* The operand is <<n>> and the bytes of the trimmed text.
do_lsa_args(c) ==
  LET text(n, s) ==
        IF s.st # "ok" THEN s ELSE Ok(s.code, <<n>> \o s.val)
      count(n) ==
        IF n.st # "ok" THEN n
        ELSE IF n.val > 0 THEN (CHOOSE res \in {text(n.val, v20) : v20 \in {read_string("Reader", n.code, n.val)}} : TRUE)
             ELSE Ok(n.code, <<0>>)
  IN (CHOOSE res \in {count(v21) : v21 \in {do_ub(c)}} : TRUE)

\* The operand is <<n, b1, ..., bn>>.
do_lpa_args(c) ==
  LET bytes(n, data) ==
        IF data.st # "ok" THEN data ELSE Ok(data.code, <<n>> \o data.val)
      count(n) ==
        IF n.st # "ok" THEN n
        ELSE IF n.val > 0 THEN (CHOOSE res \in {bytes(n.val, v22) : v22 \in {read_exact("Reader", n.code, n.val)}} : TRUE)
             ELSE Ok(n.code, <<0>>)
  IN (CHOOSE res \in {count(v23) : v23 \in {do_ub(c)}} : TRUE)

\* (w2 - w1 + 1) as usize * 2, and the vec! of that length: the i16 arithmetic
\* follows the build, and a negative count is a length no Vec can have.
do_xjp_cases_len(c, w1, w2) ==
  IF overflow_checks /\ (w2 - w1 # WrapI16(w2 - w1) \/ WrapI16(w2 - w1) + 1 > 32767)
  THEN Panic(c, "arithmetic overflow")
  ELSE IF WrapI16(WrapI16(w2 - w1) + 1) < 0
       THEN Panic(c, IF overflow_checks THEN "attempt to multiply with overflow"
                                        ELSE "capacity overflow")
       ELSE Ok(c, WrapI16(WrapI16(w2 - w1) + 1) * 2)

\* The operand is <<w1, w2>>, the cases read, and w3.
do_xjp_args(c) ==
  LET default(w1, w2, cases, w3) ==
        IF w3.st # "ok" THEN w3
        ELSE Ok(w3.code, <<w1, w2>> \o cases.val \o <<w3.val>>)
      table(w1, w2, cases) ==
        IF cases.st # "ok" THEN cases ELSE (CHOOSE res \in {default(w1, w2, cases, v24) : v24 \in {do_w(cases.code)}} : TRUE)
      alloc(w1, w2, n) ==
        IF n.st # "ok" THEN n
        ELSE (CHOOSE res \in {table(w1, w2.val, v25) : v25 \in {read_i16_into("Reader", w2.code, n.val)}} : TRUE)
      high(w1, w2) ==
        IF w2.st # "ok" THEN w2
        ELSE (CHOOSE res \in {alloc(w1.val, w2, v26) : v26 \in {do_xjp_cases_len(w2.code, w1.val, w2.val)}} : TRUE)
      low(w1) == IF w1.st # "ok" THEN w1 ELSE (CHOOSE res \in {high(w1, v27) : v27 \in {do_w(w1.code)}} : TRUE)
  IN (CHOOSE res \in {low(v28) : v28 \in {do_w(Reader_align_to_word(c))}} : TRUE)

\* do_jump_arg counting from the byte after the operand.
do_jump_arg_from_next(c, ipc) ==
  LET thru(off, t) ==
        IF t.st # "ok" THEN t ELSE Ok(off.code, <<off.val, t.val>>)
      offset(off) ==
        IF off.st # "ok" THEN off
        ELSE IF off.val = 0 THEN Ok(off.code, <<0>>)
        ELSE IF off.val < 0 THEN (CHOOSE res \in {thru(off, v29) : v29 \in {Reader_read_jump_table(off.code, off.val)}} : TRUE)
        ELSE Ok(off.code, <<off.val, off.code.cursor + off.val>>)
  IN (CHOOSE res \in {offset(v30) : v30 \in {do_sb(c)}} : TRUE)

\* The operand is <<0>> (NOP), or <<off, target>>.
do_jump_arg(c, ipc) ==
  LET thru(off, t) ==
        IF t.st # "ok" THEN t ELSE Ok(off.code, <<off.val, t.val>>)
      offset(off) ==
        IF off.st # "ok" THEN off
        ELSE IF off.val = 0 THEN Ok(off.code, <<0>>)
        ELSE IF off.val < 0 THEN (CHOOSE res \in {thru(off, v31) : v31 \in {Reader_read_jump_table(off.code, off.val)}} : TRUE)
        ELSE Ok(off.code, <<off.val, ipc + off.val>>)
  IN (CHOOSE res \in {offset(v32) : v32 \in {do_sb(c)}} : TRUE)

\* The short local load with its operand counted from the first byte of the band.
do_instruction_sldl_from_base(c, x) == (CHOOSE res \in {Print1("SLDL", v33) : v33 \in {Ok(c, x - 216)}} : TRUE)

\* x @ 216..232 => println!("SLDL {}", x - 215)
do_instruction_sldl(c, x) == (CHOOSE res \in {Print1("SLDL", v34) : v34 \in {Ok(c, x - 215)}} : TRUE)

\* An opcode without a mapping printed as a line of its own.
do_instruction_skip_opcode(c, x) == (CHOOSE res \in {Print1("???", v35) : v35 \in {Ok(c, x)}} : TRUE)

\* panic!("Unknown opcode: {}", x)
do_instruction_unknown_opcode(c, x) == Panic(c, "Unknown opcode")

\* panic!("Unknown flavor of ...: {}", x)
do_instruction_unknown_flavor(c, family, x) == Panic(c, "Unknown flavor")

\* One instruction: Ok with the line printed, [mn, args], or the failure.
do_instruction(c) ==
  LET flavor_EQU(f) ==
        IF f.st # "ok" THEN f
        ELSE CASE f.val = 2 -> Print0("EQUREAL", f.code)
               [] f.val = 4 -> Print0("EQUSTR", f.code)
               [] f.val = 6 -> Print0("EQUBOOL", f.code)
               [] f.val = 8 -> Print0("EQUPOWR", f.code)
               [] f.val = 10 -> (CHOOSE res \in {Print1("EQUBYT", v36) : v36 \in {do_b(f.code)}} : TRUE)
               [] f.val = 12 -> (CHOOSE res \in {Print1("EQUWORD", v37) : v37 \in {do_b(f.code)}} : TRUE)
               [] OTHER -> do_instruction_unknown_flavor(f.code, "EQU", f.val)
      flavor_NEQ(f) ==
        IF f.st # "ok" THEN f
        ELSE CASE f.val = 2 -> Print0("NEQREAL", f.code)
               [] f.val = 4 -> Print0("NEQSTR", f.code)
               [] f.val = 6 -> Print0("NEQBOOL", f.code)
               [] f.val = 8 -> Print0("NEQPOWR", f.code)
               [] f.val = 10 -> (CHOOSE res \in {Print1("NEQBYT", v38) : v38 \in {do_b(f.code)}} : TRUE)
               [] f.val = 12 -> (CHOOSE res \in {Print1("NEQWORD", v39) : v39 \in {do_b(f.code)}} : TRUE)
               [] OTHER -> do_instruction_unknown_flavor(f.code, "NEQ", f.val)
      flavor_LEQ(f) ==
        IF f.st # "ok" THEN f
        ELSE CASE f.val = 2 -> Print0("LEQREAL", f.code)
               [] f.val = 4 -> Print0("LEQSTR", f.code)
               [] f.val = 6 -> Print0("LEQBOOL", f.code)
               [] f.val = 8 -> Print0("LEQPOWR", f.code)
               [] f.val = 10 -> (CHOOSE res \in {Print1("LEQBYT", v40) : v40 \in {do_b(f.code)}} : TRUE)
               [] OTHER -> do_instruction_unknown_flavor(f.code, "LEQ", f.val)
      flavor_LES(f) ==
        IF f.st # "ok" THEN f
        ELSE CASE f.val = 2 -> Print0("LESREAL", f.code)
               [] f.val = 4 -> Print0("LESSTR", f.code)
               [] f.val = 6 -> Print0("LESBOOL", f.code)
               [] f.val = 10 -> (CHOOSE res \in {Print1("LESBYT", v41) : v41 \in {do_b(f.code)}} : TRUE)
               [] OTHER -> do_instruction_unknown_flavor(f.code, "LES", f.val)
      flavor_GEQ(f) ==
        IF f.st # "ok" THEN f
        ELSE CASE f.val = 2 -> Print0("GEQREAL", f.code)
               [] f.val = 4 -> Print0("GEQSTR", f.code)
               [] f.val = 6 -> Print0("GEQBOOL", f.code)
               [] f.val = 8 -> Print0("GEQPOWR", f.code)
               [] f.val = 10 -> (CHOOSE res \in {Print1("GEQBYT", v42) : v42 \in {do_b(f.code)}} : TRUE)
               [] OTHER -> do_instruction_unknown_flavor(f.code, "GEQ", f.val)
      flavor_GRT(f) ==
        IF f.st # "ok" THEN f
        ELSE CASE f.val = 2 -> Print0("GRTREAL", f.code)
               [] f.val = 4 -> Print0("GRTSTR", f.code)
               [] f.val = 6 -> Print0("GRTBOOL", f.code)
               [] f.val = 10 -> (CHOOSE res \in {Print1("GRTBYT", v43) : v43 \in {do_b(f.code)}} : TRUE)
               [] OTHER -> do_instruction_unknown_flavor(f.code, "GRT", f.val)
      flavor_CSP(f) ==
        IF f.st # "ok" THEN f
        ELSE CASE f.val = 1 -> Print0("NEW", f.code)
               [] f.val = 4 -> Print0("EXIT", f.code)
               [] f.val = 10 -> Print0("FLC", f.code)
               [] f.val = 11 -> Print0("SCN", f.code)
               [] f.val = 2 -> Print0("MVL", f.code)
               [] f.val = 3 -> Print0("MVR", f.code)
               [] f.val = 9 -> Print0("TIM", f.code)
               [] f.val = 31 -> Print0("MRK", f.code)
               [] f.val = 32 -> Print0("RLS", f.code)
               [] f.val = 22 -> Print0("TNC", f.code)
               [] f.val = 23 -> Print0("RND", f.code)
               [] f.val = 35 -> Print0("POT", f.code)
               [] OTHER -> (CHOOSE res \in {Print1("CSP", v44) : v44 \in {Ok(f.code, f.val)}} : TRUE)
      opcode(pos, op) ==
        IF op.st # "ok" THEN op
        ELSE CASE op.val = 159 -> Print0("LDCN", op.code)
               [] op.val = 199 -> (CHOOSE res \in {Print1("LDCI", v45) : v45 \in {do_w(op.code)}} : TRUE)
               [] op.val = 202 -> (CHOOSE res \in {Print1("LDL", v46) : v46 \in {do_b(op.code)}} : TRUE)
               [] op.val = 198 -> (CHOOSE res \in {Print1("LLA", v47) : v47 \in {do_b(op.code)}} : TRUE)
               [] op.val = 204 -> (CHOOSE res \in {Print1("STL", v48) : v48 \in {do_b(op.code)}} : TRUE)
               [] op.val = 169 -> (CHOOSE res \in {Print1("LDO", v49) : v49 \in {do_b(op.code)}} : TRUE)
               [] op.val = 165 -> (CHOOSE res \in {Print1("LAO", v50) : v50 \in {do_b(op.code)}} : TRUE)
               [] op.val = 171 -> (CHOOSE res \in {Print1("SRO", v51) : v51 \in {do_b(op.code)}} : TRUE)
               [] op.val = 182 -> (CHOOSE res \in {Print2("LOD", v52, v53) : v52 \in {do_db(op.code)}, v53 \in {do_b(do_db(op.code).code)}} : TRUE)
               [] op.val = 178 -> (CHOOSE res \in {Print2("LDA", v54, v55) : v54 \in {do_db(op.code)}, v55 \in {do_b(do_db(op.code).code)}} : TRUE)
               [] op.val = 184 -> (CHOOSE res \in {Print2("STR", v56, v57) : v56 \in {do_db(op.code)}, v57 \in {do_b(do_db(op.code).code)}} : TRUE)
               [] op.val = 163 -> (CHOOSE res \in {Print1("IND", v58) : v58 \in {do_b(op.code)}} : TRUE)
               [] op.val = 154 -> Print0("STO", op.code)
               [] op.val = 157 -> (CHOOSE res \in {Print2("LDE", v59, v60) : v59 \in {do_ub(op.code)}, v60 \in {do_b(do_ub(op.code).code)}} : TRUE)
               [] op.val = 167 -> (CHOOSE res \in {Print2("LAE", v61, v62) : v61 \in {do_ub(op.code)}, v62 \in {do_b(do_ub(op.code).code)}} : TRUE)
               [] op.val = 209 -> (CHOOSE res \in {Print2("STR", v63, v64) : v63 \in {do_ub(op.code)}, v64 \in {do_b(do_ub(op.code).code)}} : TRUE)
               [] op.val = 179 -> (CHOOSE res \in {Print1("LDC", v65) : v65 \in {do_ldc_args(op.code)}} : TRUE)
               [] op.val = 188 -> (CHOOSE res \in {Print1("LDM", v66) : v66 \in {do_ub(op.code)}} : TRUE)
               [] op.val = 189 -> (CHOOSE res \in {Print1("STM", v67) : v67 \in {do_ub(op.code)}} : TRUE)
               [] op.val = 190 -> Print0("LDB", op.code)
               [] op.val = 191 -> Print0("STB", op.code)
               [] op.val = 166 -> (CHOOSE res \in {Print1("LSA", v68) : v68 \in {do_lsa_args(op.code)}} : TRUE)
               [] op.val = 170 -> (CHOOSE res \in {Print1("SAS", v69) : v69 \in {do_ub(op.code)}} : TRUE)
               [] op.val = 155 -> Print0("IXS", op.code)
               [] op.val = 168 -> (CHOOSE res \in {Print1("MOV", v70) : v70 \in {do_b(op.code)}} : TRUE)
               [] op.val = 162 -> (CHOOSE res \in {Print1("INC", v71) : v71 \in {do_b(op.code)}} : TRUE)
               [] op.val = 164 -> (CHOOSE res \in {Print1("IXA", v72) : v72 \in {do_b(op.code)}} : TRUE)
               [] op.val = 192 -> (CHOOSE res \in {Print2("IXP", v73, v74) : v73 \in {do_ub(op.code)}, v74 \in {do_ub(do_ub(op.code).code)}} : TRUE)
               [] op.val = 208 -> (CHOOSE res \in {Print1("LPA", v75) : v75 \in {do_lpa_args(op.code)}} : TRUE)
               [] op.val = 186 -> Print0("LDP", op.code)
               [] op.val = 187 -> Print0("STP", op.code)
               [] op.val = 128 -> Print0("ABI", op.code)
               [] op.val = 130 -> Print0("ADI", op.code)
               [] op.val = 145 -> Print0("NGI", op.code)
               [] op.val = 149 -> Print0("SBI", op.code)
               [] op.val = 143 -> Print0("MPI", op.code)
               [] op.val = 152 -> Print0("SQI", op.code)
               [] op.val = 134 -> Print0("DVI", op.code)
               [] op.val = 142 -> Print0("MODI", op.code)
               [] op.val = 136 -> Print0("CHK", op.code)
               [] op.val = 195 -> Print0("EQUI", op.code)
               [] op.val = 203 -> Print0("NEQI", op.code)
               [] op.val = 200 -> Print0("LEQI", op.code)
               [] op.val = 201 -> Print0("LESI", op.code)
               [] op.val = 196 -> Print0("GEQI", op.code)
               [] op.val = 197 -> Print0("GRTI", op.code)
               [] op.val = 175 -> (CHOOSE res \in {flavor_EQU(v76) : v76 \in {read_u8("Reader", op.code)}} : TRUE)
               [] op.val = 183 -> (CHOOSE res \in {flavor_NEQ(v77) : v77 \in {read_u8("Reader", op.code)}} : TRUE)
               [] op.val = 180 -> (CHOOSE res \in {flavor_LEQ(v78) : v78 \in {read_u8("Reader", op.code)}} : TRUE)
               [] op.val = 181 -> (CHOOSE res \in {flavor_LES(v79) : v79 \in {read_u8("Reader", op.code)}} : TRUE)
               [] op.val = 176 -> (CHOOSE res \in {flavor_GEQ(v80) : v80 \in {read_u8("Reader", op.code)}} : TRUE)
               [] op.val = 177 -> (CHOOSE res \in {flavor_GRT(v81) : v81 \in {read_u8("Reader", op.code)}} : TRUE)
               [] op.val = 138 -> Print0("FLT", op.code)
               [] op.val = 137 -> Print0("FLO", op.code)
               [] op.val = 129 -> Print0("ABR", op.code)
               [] op.val = 131 -> Print0("ADR", op.code)
               [] op.val = 146 -> Print0("NGR", op.code)
               [] op.val = 150 -> Print0("SBR", op.code)
               [] op.val = 144 -> Print0("MPR", op.code)
               [] op.val = 153 -> Print0("SQR", op.code)
               [] op.val = 135 -> Print0("DVR", op.code)
               [] op.val = 132 -> Print0("LAND", op.code)
               [] op.val = 141 -> Print0("LOR", op.code)
               [] op.val = 147 -> Print0("LNOT", op.code)
               [] op.val = 160 -> (CHOOSE res \in {Print1("ADJ", v82) : v82 \in {do_ub(op.code)}} : TRUE)
               [] op.val = 151 -> Print0("SGS", op.code)
               [] op.val = 148 -> Print0("SRS", op.code)
               [] op.val = 139 -> Print0("INN", op.code)
               [] op.val = 156 -> Print0("UNI", op.code)
               [] op.val = 140 -> Print0("INT", op.code)
               [] op.val = 133 -> Print0("DIF", op.code)
               [] op.val = 214 -> Print0("XIT", op.code)
               [] op.val = 215 -> Print0("NOP", op.code)
               [] op.val = 213 -> (CHOOSE res \in {Print1("BPT", v83) : v83 \in {do_b(op.code)}} : TRUE)
               [] op.val = 185 -> (CHOOSE res \in {Print1("UJP", v84) : v84 \in {do_jump_arg(op.code, pos)}} : TRUE)
               [] op.val = 161 -> (CHOOSE res \in {Print1("FJP", v85) : v85 \in {do_jump_arg(op.code, pos)}} : TRUE)
               [] op.val = 172 -> (CHOOSE res \in {Print1("XJP", v86) : v86 \in {do_xjp_args(op.code)}} : TRUE)
               [] op.val = 206 -> (CHOOSE res \in {Print1("CLP", v87) : v87 \in {do_ub(op.code)}} : TRUE)
               [] op.val = 207 -> (CHOOSE res \in {Print1("CGP", v88) : v88 \in {do_ub(op.code)}} : TRUE)
               [] op.val = 174 -> (CHOOSE res \in {Print1("CIP", v89) : v89 \in {do_ub(op.code)}} : TRUE)
               [] op.val = 194 -> (CHOOSE res \in {Print1("CBP", v90) : v90 \in {do_ub(op.code)}} : TRUE)
               [] op.val = 205 -> (CHOOSE res \in {Print2("CXP", v91, v92) : v91 \in {do_ub(op.code)}, v92 \in {do_ub(do_ub(op.code).code)}} : TRUE)
               [] op.val = 173 -> (CHOOSE res \in {Print1("RNP", v93) : v93 \in {do_db(op.code)}} : TRUE)
               [] op.val = 193 -> (CHOOSE res \in {Print1("RBP", v94) : v94 \in {do_db(op.code)}} : TRUE)
               [] op.val = 158 -> (CHOOSE res \in {flavor_CSP(v95) : v95 \in {read_u8("Reader", op.code)}} : TRUE)
               [] op.val \in 216..231 -> do_instruction_sldl(op.code, op.val)
               [] op.val \in 232..247 -> (CHOOSE res \in {Print1("SLDO", v96) : v96 \in {Ok(op.code, op.val - 231)}} : TRUE)
               [] op.val \in 248..255 -> (CHOOSE res \in {Print1("SIND", v97) : v97 \in {Ok(op.code, op.val - 248)}} : TRUE)
               [] op.val \in 0..127 -> (CHOOSE res \in {Print1("SLDC", v98) : v98 \in {Ok(op.code, op.val)}} : TRUE)
               [] OTHER -> do_instruction_unknown_opcode(op.code, op.val)
  IN (CHOOSE res \in {opcode(c.cursor, v99) : v99 \in {read_u8("Reader", c)}} : TRUE)

\* ------------------------------------------------------------ main.rs: the decoder

\* A PCodeReader that is left where it is, on an odd offset too.
PCodeReader_align_to_byte(c) == c

\* PCodeReader::align_to_word
PCodeReader_align_to_word(c) ==
  IF BitAnd(c.cursor, 1) # 0 THEN [c EXCEPT !.cursor = @ + 1] ELSE c

\* PCodeReader::read_jump_table: checked_add_signed, the slice, read_u16 and their
\* unwraps panic; the subtraction follows the build.
PCodeReader_read_jump_table(c, sb) ==
  LET entry(i, w) ==
        IF w.st # "ok" THEN Panic(c, "called Result::unwrap() on an Err value")
        ELSE USub(c, i, w.val)
      slice(i, s) ==
        IF s.st # "ok" THEN Panic(c, s.val) ELSE (CHOOSE res \in {entry(i, v100) : v100 \in {read_u16("slice", s.code)}} : TRUE)
      index(i) ==
        IF i < 0 THEN Panic(c, "called Option::unwrap() on a None value")
        ELSE (CHOOSE res \in {slice(i, v101) : v101 \in {SliceFrom(c.segment, i)}} : TRUE)
  IN index(c.jtab + sb)

\* Word
parse_param_w(c) == read_i16("PCodeReader", c)

\* Big: one or two-byte sized word
parse_param_b(c) ==
  LET second(v, r) ==
        IF r.st # "ok" THEN r ELSE Ok(r.code, BitOr(BitAnd(v, 127), r.val))
      first(v) ==
        IF v.st # "ok" THEN v
        ELSE IF BitAnd(v.val, 128) # 0 THEN (CHOOSE res \in {second(v.val, v102) : v102 \in {read_u8("PCodeReader", v.code)}} : TRUE)
        ELSE v
  IN (CHOOSE res \in {first(v103) : v103 \in {read_u8("PCodeReader", c)}} : TRUE)

\* Don't Care Byte
parse_param_db(c) == read_u8("PCodeReader", c)

\* Unsigned Byte
parse_param_ub(c) == read_u8("PCodeReader", c)

\* Signed Byte
parse_param_sb(c) == read_i8("PCodeReader", c)

\* The operand is <<n, w1, ..., wn>>.
parse_ldc_params(c) ==
  LET words(n, data) ==
        IF data.st # "ok" THEN data ELSE Ok(data.code, <<n>> \o data.val)
      count(n) ==
        IF n.st # "ok" THEN n
        ELSE IF n.val > 0
             THEN (CHOOSE res \in {words(n.val, v104) : v104 \in {read_u16_into("PCodeReader", PCodeReader_align_to_word(n.code), n.val)}} : TRUE)
             ELSE Ok(n.code, <<0>>)
  IN (CHOOSE res \in {count(v105) : v105 \in {parse_param_ub(c)}} : TRUE)

\* The operand is <<n>> and the bytes of the trimmed text.
parse_lsa_params(c) ==
  LET text(n, s) ==
        IF s.st # "ok" THEN s ELSE Ok(s.code, <<n>> \o s.val)
      count(n) ==
        IF n.st # "ok" THEN n
        ELSE IF n.val > 0 THEN (CHOOSE res \in {text(n.val, v106) : v106 \in {main_read_string("PCodeReader", n.code, n.val)}} : TRUE)
             ELSE Ok(n.code, <<0>>)
  IN (CHOOSE res \in {count(v107) : v107 \in {parse_param_ub(c)}} : TRUE)

\* The operand is <<n, b1, ..., bn>>.
parse_lpa_params(c) ==
  LET bytes(n, data) ==
        IF data.st # "ok" THEN data ELSE Ok(data.code, <<n>> \o data.val)
      count(n) ==
        IF n.st # "ok" THEN n
        ELSE IF n.val > 0 THEN (CHOOSE res \in {bytes(n.val, v108) : v108 \in {read_exact("PCodeReader", n.code, n.val)}} : TRUE)
             ELSE Ok(n.code, <<0>>)
  IN (CHOOSE res \in {count(v109) : v109 \in {parse_param_ub(c)}} : TRUE)

\* (w2 - w1 + 1) as usize * 2, and the vec! of that length: the i16 arithmetic
\* follows the build, and a negative count is a length no Vec can have.
parse_xjp_cases_len(c, w1, w2) ==
  IF overflow_checks /\ (w2 - w1 # WrapI16(w2 - w1) \/ WrapI16(w2 - w1) + 1 > 32767)
  THEN Panic(c, "arithmetic overflow")
  ELSE IF WrapI16(WrapI16(w2 - w1) + 1) < 0
       THEN Panic(c, IF overflow_checks THEN "attempt to multiply with overflow"
                                        ELSE "capacity overflow")
       ELSE Ok(c, WrapI16(WrapI16(w2 - w1) + 1) * 2)

\* The operand is <<w1, w2>>, the cases read, and w3.
parse_xjp_params(c) ==
  LET default(w1, w2, cases, w3) ==
        IF w3.st # "ok" THEN w3
        ELSE Ok(w3.code, <<w1, w2>> \o cases.val \o <<w3.val>>)
      table(w1, w2, cases) ==
        IF cases.st # "ok" THEN cases ELSE (CHOOSE res \in {default(w1, w2, cases, v110) : v110 \in {parse_param_w(cases.code)}} : TRUE)
      alloc(w1, w2, n) ==
        IF n.st # "ok" THEN n
        ELSE (CHOOSE res \in {table(w1, w2.val, v111) : v111 \in {read_i16_into("PCodeReader", w2.code, n.val)}} : TRUE)
      high(w1, w2) ==
        IF w2.st # "ok" THEN w2
        ELSE (CHOOSE res \in {alloc(w1.val, w2, v112) : v112 \in {parse_xjp_cases_len(w2.code, w1.val, w2.val)}} : TRUE)
      low(w1) == IF w1.st # "ok" THEN w1 ELSE (CHOOSE res \in {high(w1, v113) : v113 \in {parse_param_w(w1.code)}} : TRUE)
  IN (CHOOSE res \in {low(v114) : v114 \in {parse_param_w(PCodeReader_align_to_word(c))}} : TRUE)

\* The operand is <<0>> (NOP), or <<off, target>>.
parse_jump_param(c, ipc) ==
  LET thru(off, t) ==
        IF t.st # "ok" THEN t ELSE Ok(off.code, <<off.val, t.val>>)
      offset(off) ==
        IF off.st # "ok" THEN off
        ELSE IF off.val = 0 THEN Ok(off.code, <<0>>)
        ELSE IF off.val < 0 THEN (CHOOSE res \in {thru(off, v115) : v115 \in {PCodeReader_read_jump_table(off.code, off.val)}} : TRUE)
        ELSE Ok(off.code, <<off.val, ipc + off.val>>)
  IN (CHOOSE res \in {offset(v116) : v116 \in {parse_param_sb(c)}} : TRUE)

\* x @ 216..232 => println!("SLDL {}", x - 215)
dump_instruction_sldl(c, x) == (CHOOSE res \in {Print1("SLDL", v117) : v117 \in {Ok(c, x - 215)}} : TRUE)

\* panic!("Unknown opcode: {}", x)
dump_instruction_unknown_opcode(c, x) == Panic(c, "Unknown opcode")

\* panic!("Unknown flavor of ...: {}", x)
dump_instruction_unknown_flavor(c, family, x) == Panic(c, "Unknown flavor")

\* One instruction: Ok with the line printed, [mn, args], or the failure.
dump_instruction(c) ==
  LET flavor_EQU(f) ==
        IF f.st # "ok" THEN f
        ELSE CASE f.val = 2 -> Print0("EQUREAL", f.code)
               [] f.val = 4 -> Print0("EQUSTR", f.code)
               [] f.val = 6 -> Print0("EQUBOOL", f.code)
               [] f.val = 8 -> Print0("EQUPOWR", f.code)
               [] f.val = 10 -> (CHOOSE res \in {Print1("EQUBYT", v118) : v118 \in {parse_param_b(f.code)}} : TRUE)
               [] f.val = 12 -> (CHOOSE res \in {Print1("EQUWORD", v119) : v119 \in {parse_param_b(f.code)}} : TRUE)
               [] OTHER -> dump_instruction_unknown_flavor(f.code, "EQU", f.val)
      flavor_NEQ(f) ==
        IF f.st # "ok" THEN f
        ELSE CASE f.val = 2 -> Print0("NEQREAL", f.code)
               [] f.val = 4 -> Print0("NEQSTR", f.code)
               [] f.val = 6 -> Print0("NEQBOOL", f.code)
               [] f.val = 8 -> Print0("NEQPOWR", f.code)
               [] f.val = 10 -> (CHOOSE res \in {Print1("NEQBYT", v120) : v120 \in {parse_param_b(f.code)}} : TRUE)
               [] f.val = 12 -> (CHOOSE res \in {Print1("NEQWORD", v121) : v121 \in {parse_param_b(f.code)}} : TRUE)
               [] OTHER -> dump_instruction_unknown_flavor(f.code, "NEQ", f.val)
      flavor_LEQ(f) ==
        IF f.st # "ok" THEN f
        ELSE CASE f.val = 2 -> Print0("LEQREAL", f.code)
               [] f.val = 4 -> Print0("LEQSTR", f.code)
               [] f.val = 6 -> Print0("LEQBOOL", f.code)
               [] f.val = 8 -> Print0("LEQPOWR", f.code)
               [] f.val = 10 -> (CHOOSE res \in {Print1("LEQBYT", v122) : v122 \in {parse_param_b(f.code)}} : TRUE)
               [] OTHER -> dump_instruction_unknown_flavor(f.code, "LEQ", f.val)
      flavor_LES(f) ==
        IF f.st # "ok" THEN f
        ELSE CASE f.val = 2 -> Print0("LESREAL", f.code)
               [] f.val = 4 -> Print0("LESSTR", f.code)
               [] f.val = 6 -> Print0("LESBOOL", f.code)
               [] f.val = 10 -> (CHOOSE res \in {Print1("LESBYT", v123) : v123 \in {parse_param_b(f.code)}} : TRUE)
               [] OTHER -> dump_instruction_unknown_flavor(f.code, "LES", f.val)
      flavor_GEQ(f) ==
        IF f.st # "ok" THEN f
        ELSE CASE f.val = 2 -> Print0("GEQREAL", f.code)
               [] f.val = 4 -> Print0("GEQSTR", f.code)
               [] f.val = 6 -> Print0("GEQBOOL", f.code)
               [] f.val = 8 -> Print0("GEQPOWR", f.code)
               [] f.val = 10 -> (CHOOSE res \in {Print1("GEQBYT", v124) : v124 \in {parse_param_b(f.code)}} : TRUE)
               [] OTHER -> dump_instruction_unknown_flavor(f.code, "GEQ", f.val)
      flavor_GRT(f) ==
        IF f.st # "ok" THEN f
        ELSE CASE f.val = 2 -> Print0("GRTREAL", f.code)
               [] f.val = 4 -> Print0("GRTSTR", f.code)
               [] f.val = 6 -> Print0("GRTBOOL", f.code)
               [] f.val = 10 -> (CHOOSE res \in {Print1("GRTBYT", v125) : v125 \in {parse_param_b(f.code)}} : TRUE)
               [] OTHER -> dump_instruction_unknown_flavor(f.code, "GRT", f.val)
      flavor_CSP(f) ==
        IF f.st # "ok" THEN f
        ELSE CASE f.val = 1 -> Print0("NEW", f.code)
               [] f.val = 4 -> Print0("EXIT", f.code)
               [] f.val = 10 -> Print0("FLC", f.code)
               [] f.val = 11 -> Print0("SCN", f.code)
               [] f.val = 2 -> Print0("MVL", f.code)
               [] f.val = 3 -> Print0("MVR", f.code)
               [] f.val = 9 -> Print0("TIM", f.code)
               [] f.val = 31 -> Print0("MRK", f.code)
               [] f.val = 32 -> Print0("RLS", f.code)
               [] f.val = 22 -> Print0("TNC", f.code)
               [] f.val = 23 -> Print0("RND", f.code)
               [] f.val = 35 -> Print0("POT", f.code)
               [] OTHER -> (CHOOSE res \in {Print1("CSP", v126) : v126 \in {Ok(f.code, f.val)}} : TRUE)
      opcode(pos, op) ==
        IF op.st # "ok" THEN op
        ELSE CASE op.val = 159 -> Print0("LDCN", op.code)
               [] op.val = 199 -> (CHOOSE res \in {Print1("LDCI", v127) : v127 \in {parse_param_w(op.code)}} : TRUE)
               [] op.val = 202 -> (CHOOSE res \in {Print1("LDL", v128) : v128 \in {parse_param_b(op.code)}} : TRUE)
               [] op.val = 198 -> (CHOOSE res \in {Print1("LLA", v129) : v129 \in {parse_param_b(op.code)}} : TRUE)
               [] op.val = 204 -> (CHOOSE res \in {Print1("STL", v130) : v130 \in {parse_param_b(op.code)}} : TRUE)
               [] op.val = 169 -> (CHOOSE res \in {Print1("LDO", v131) : v131 \in {parse_param_b(op.code)}} : TRUE)
               [] op.val = 165 -> (CHOOSE res \in {Print1("LAO", v132) : v132 \in {parse_param_b(op.code)}} : TRUE)
               [] op.val = 171 -> (CHOOSE res \in {Print1("SRO", v133) : v133 \in {parse_param_b(op.code)}} : TRUE)
               [] op.val = 182 -> (CHOOSE res \in {Print2("LOD", v134, v135) : v134 \in {parse_param_db(op.code)}, v135 \in {parse_param_b(parse_param_db(op.code).code)}} : TRUE)
               [] op.val = 178 -> (CHOOSE res \in {Print2("LDA", v136, v137) : v136 \in {parse_param_db(op.code)}, v137 \in {parse_param_b(parse_param_db(op.code).code)}} : TRUE)
               [] op.val = 184 -> (CHOOSE res \in {Print2("STR", v138, v139) : v138 \in {parse_param_db(op.code)}, v139 \in {parse_param_b(parse_param_db(op.code).code)}} : TRUE)
               [] op.val = 163 -> (CHOOSE res \in {Print1("IND", v140) : v140 \in {parse_param_b(op.code)}} : TRUE)
               [] op.val = 154 -> Print0("STO", op.code)
               [] op.val = 157 -> (CHOOSE res \in {Print2("LDE", v141, v142) : v141 \in {parse_param_ub(op.code)}, v142 \in {parse_param_b(parse_param_ub(op.code).code)}} : TRUE)
               [] op.val = 167 -> (CHOOSE res \in {Print2("LAE", v143, v144) : v143 \in {parse_param_ub(op.code)}, v144 \in {parse_param_b(parse_param_ub(op.code).code)}} : TRUE)
               [] op.val = 209 -> (CHOOSE res \in {Print2("STR", v145, v146) : v145 \in {parse_param_ub(op.code)}, v146 \in {parse_param_b(parse_param_ub(op.code).code)}} : TRUE)
               [] op.val = 179 -> (CHOOSE res \in {Print1("LDC", v147) : v147 \in {parse_ldc_params(op.code)}} : TRUE)
               [] op.val = 188 -> (CHOOSE res \in {Print1("LDM", v148) : v148 \in {parse_param_ub(op.code)}} : TRUE)
               [] op.val = 189 -> (CHOOSE res \in {Print1("STM", v149) : v149 \in {parse_param_ub(op.code)}} : TRUE)
               [] op.val = 190 -> Print0("LDB", op.code)
               [] op.val = 191 -> Print0("STB", op.code)
               [] op.val = 166 -> (CHOOSE res \in {Print1("LSA", v150) : v150 \in {parse_lsa_params(op.code)}} : TRUE)
               [] op.val = 170 -> (CHOOSE res \in {Print1("SAS", v151) : v151 \in {parse_param_ub(op.code)}} : TRUE)
               [] op.val = 155 -> Print0("IXS", op.code)
               [] op.val = 168 -> (CHOOSE res \in {Print1("MOV", v152) : v152 \in {parse_param_b(op.code)}} : TRUE)
               [] op.val = 162 -> (CHOOSE res \in {Print1("INC", v153) : v153 \in {parse_param_b(op.code)}} : TRUE)
               [] op.val = 164 -> (CHOOSE res \in {Print1("IXA", v154) : v154 \in {parse_param_b(op.code)}} : TRUE)
               [] op.val = 192 -> (CHOOSE res \in {Print2("IXP", v155, v156) : v155 \in {parse_param_ub(op.code)}, v156 \in {parse_param_ub(parse_param_ub(op.code).code)}} : TRUE)
               [] op.val = 208 -> (CHOOSE res \in {Print1("LPA", v157) : v157 \in {parse_lpa_params(op.code)}} : TRUE)
               [] op.val = 186 -> Print0("LDP", op.code)
               [] op.val = 187 -> Print0("STP", op.code)
               [] op.val = 128 -> Print0("ABI", op.code)
               [] op.val = 130 -> Print0("ADI", op.code)
               [] op.val = 145 -> Print0("NGI", op.code)
               [] op.val = 149 -> Print0("SBI", op.code)
               [] op.val = 143 -> Print0("MPI", op.code)
               [] op.val = 152 -> Print0("SQI", op.code)
               [] op.val = 134 -> Print0("DVI", op.code)
               [] op.val = 142 -> Print0("MODI", op.code)
               [] op.val = 136 -> Print0("CHK", op.code)
               [] op.val = 195 -> Print0("EQUI", op.code)
               [] op.val = 203 -> Print0("NEQI", op.code)
               [] op.val = 200 -> Print0("LEQI", op.code)
               [] op.val = 201 -> Print0("LESI", op.code)
               [] op.val = 196 -> Print0("GEQI", op.code)
               [] op.val = 197 -> Print0("GRTI", op.code)
               [] op.val = 175 -> (CHOOSE res \in {flavor_EQU(v158) : v158 \in {read_u8("PCodeReader", op.code)}} : TRUE)
               [] op.val = 183 -> (CHOOSE res \in {flavor_NEQ(v159) : v159 \in {read_u8("PCodeReader", op.code)}} : TRUE)
               [] op.val = 180 -> (CHOOSE res \in {flavor_LEQ(v160) : v160 \in {read_u8("PCodeReader", op.code)}} : TRUE)
               [] op.val = 181 -> (CHOOSE res \in {flavor_LES(v161) : v161 \in {read_u8("PCodeReader", op.code)}} : TRUE)
               [] op.val = 176 -> (CHOOSE res \in {flavor_GEQ(v162) : v162 \in {read_u8("PCodeReader", op.code)}} : TRUE)
               [] op.val = 177 -> (CHOOSE res \in {flavor_GRT(v163) : v163 \in {read_u8("PCodeReader", op.code)}} : TRUE)
               [] op.val = 138 -> Print0("FLT", op.code)
               [] op.val = 137 -> Print0("FLO", op.code)
               [] op.val = 129 -> Print0("ABR", op.code)
               [] op.val = 131 -> Print0("ADR", op.code)
               [] op.val = 146 -> Print0("NGR", op.code)
               [] op.val = 150 -> Print0("SBR", op.code)
               [] op.val = 144 -> Print0("MPR", op.code)
               [] op.val = 153 -> Print0("SQR", op.code)
               [] op.val = 135 -> Print0("DVR", op.code)
               [] op.val = 132 -> Print0("LAND", op.code)
               [] op.val = 141 -> Print0("LOR", op.code)
               [] op.val = 147 -> Print0("LNOT", op.code)
               [] op.val = 160 -> (CHOOSE res \in {Print1("ADJ", v164) : v164 \in {parse_param_ub(op.code)}} : TRUE)
               [] op.val = 151 -> Print0("SGS", op.code)
               [] op.val = 148 -> Print0("SRS", op.code)
               [] op.val = 139 -> Print0("INN", op.code)
               [] op.val = 156 -> Print0("UNI", op.code)
               [] op.val = 140 -> Print0("INT", op.code)
               [] op.val = 133 -> Print0("DIF", op.code)
               [] op.val = 214 -> Print0("XIT", op.code)
               [] op.val = 215 -> Print0("NOP", op.code)
               [] op.val = 213 -> (CHOOSE res \in {Print1("BPT", v165) : v165 \in {parse_param_b(op.code)}} : TRUE)
               [] op.val = 185 -> (CHOOSE res \in {Print1("UJP", v166) : v166 \in {parse_jump_param(op.code, pos)}} : TRUE)
               [] op.val = 161 -> (CHOOSE res \in {Print1("FJP", v167) : v167 \in {parse_jump_param(op.code, pos)}} : TRUE)
               [] op.val = 172 -> (CHOOSE res \in {Print1("XJP", v168) : v168 \in {parse_xjp_params(op.code)}} : TRUE)
               [] op.val = 206 -> (CHOOSE res \in {Print1("CLP", v169) : v169 \in {parse_param_ub(op.code)}} : TRUE)
               [] op.val = 207 -> (CHOOSE res \in {Print1("CGP", v170) : v170 \in {parse_param_ub(op.code)}} : TRUE)
               [] op.val = 174 -> (CHOOSE res \in {Print1("CIP", v171) : v171 \in {parse_param_ub(op.code)}} : TRUE)
               [] op.val = 194 -> (CHOOSE res \in {Print1("CBP", v172) : v172 \in {parse_param_ub(op.code)}} : TRUE)
               [] op.val = 205 -> (CHOOSE res \in {Print2("CXP", v173, v174) : v173 \in {parse_param_ub(op.code)}, v174 \in {parse_param_ub(parse_param_ub(op.code).code)}} : TRUE)
               [] op.val = 173 -> (CHOOSE res \in {Print1("RNP", v175) : v175 \in {parse_param_db(op.code)}} : TRUE)
               [] op.val = 193 -> (CHOOSE res \in {Print1("RBP", v176) : v176 \in {parse_param_db(op.code)}} : TRUE)
               [] op.val = 158 -> (CHOOSE res \in {flavor_CSP(v177) : v177 \in {read_u8("PCodeReader", op.code)}} : TRUE)
               [] op.val \in 216..231 -> dump_instruction_sldl(op.code, op.val)
               [] op.val \in 232..247 -> (CHOOSE res \in {Print1("SLDO", v178) : v178 \in {Ok(op.code, op.val - 231)}} : TRUE)
               [] op.val \in 248..255 -> (CHOOSE res \in {Print1("SIND", v179) : v179 \in {Ok(op.code, op.val - 248)}} : TRUE)
               [] op.val \in 0..127 -> (CHOOSE res \in {Print1("SLDC", v180) : v180 \in {Ok(op.code, op.val)}} : TRUE)
               [] OTHER -> dump_instruction_unknown_opcode(op.code, op.val)
  IN (CHOOSE res \in {opcode(c.cursor, v181) : v181 \in {read_u8("PCodeReader", c)}} : TRUE)

\* ------------------------------------------------------------ inputs

Byte == 0..255

\* The most bytes put before the operand under test.
MaxPad == 1

Zeros(n) == [k \in 1..n |-> 0]

NoResult == [st |-> "none", code |-> [segment |-> <<>>, cursor |-> 0, jtab |-> 0], val |-> 0]

NoInfo ==
  [code_addr |-> 0, code_len |-> 0, name |-> <<>>, kind |-> "Linked", text_addr |-> 0,
   num |-> 0, machine_type |-> "Unknown", version |-> 0]

\* What an operation applied on its own leaves alone.
Idle ==
  /\ codefile = <<>>
  /\ info = NoInfo
  /\ exit_addr = 0
  /\ footer_start = 0
  /\ proc_i = 0
  /\ procs = <<>>
  /\ listing = <<>>

IdleUnchanged ==
  UNCHANGED <<overflow_checks, codefile, info, exit_addr, footer_start, proc_i, procs, listing>>

\* ------------------------------------------------------------ disassemble and dump_p_code

\* The loop of disassemble leaving out the instruction that starts at exit_addr.
disassemble_continues_before(c, exit) == ULt(c.cursor, exit)

\* while reader.cursor <= exit_addr
disassemble_continues(c, exit) == ULe(c.cursor, exit)

\* while code.cursor <= exit_at
dump_p_code_continues(c, exit_at) == ULe(c.cursor, exit_at)

\* How far exit_addr may lie beyond enter_addr.
MaxExit == 2

\* How many bytes after the first operand byte vary, and how many follow them.
TailVar == 2

FillLen == 12

ArgBytes == {0, 2, 5, 10, 133, 255}

TailBytes == {0, 1, 255}

JumpOffsets == {0, 1, 5, 127, 128, 254, 255}

\* The opcodes that take operands of each kind, a two-level one of each shape,
\* and one without a mapping.
OperandOps == {158, 161, 166, 172, 175, 177, 179, 180, 182, 185, 192, 199, 202, 208, 210}

Fill == Zeros(FillLen - 3) \o <<1, 0, 0>>

Tails == [1..TailVar -> TailBytes]

\* The instruction streams decoded: every opcode byte, the operand-taking
\* opcodes over more operand bytes, and streams that end early.
Streams ==
  {<<op, a>> \o Zeros(TailVar) \o Fill : op \in Byte, a \in {0, 133, 210}}
    \cup {<<op, a>> \o t \o Fill : op \in OperandOps, a \in ArgBytes, t \in Tails}
    \cup {<<op>> : op \in Byte}
    \cup {<<op, a>> : op \in OperandOps, a \in ArgBytes}

JumpStreams ==
  {<<op, a>> \o Zeros(TailVar) \o Fill : op \in {185, 161}, a \in JumpOffsets}

\* The calls of disassemble made: the stream after 0..MaxPad bytes, entered at
\* its first byte, with exit_addr around it and the jump table base behind it.
Exits(enter) == {e \in (enter - 1)..(enter + MaxExit) : e >= 0}

Calls ==
  {[segment |-> Zeros(pad) \o s, enter_addr |-> pad, exit_addr |-> e, jtab_addr |-> Len(s) + pad] :
     pad \in 0..MaxPad, s \in Streams, e \in 0..(MaxPad + MaxExit)}
    \cup
  {[segment |-> Zeros(pad) \o s, enter_addr |-> pad, exit_addr |-> pad, jtab_addr |-> j] :
     pad \in 0..MaxPad, s \in JumpStreams, j \in {1, FillLen + TailVar - 1, FillLen + TailVar + 1, FillLen + TailVar + 2}}

\* disassemble is called, or dump_p_code on a reader of its own:
\* Reader::new / PCodeReader::new(segment, enter_addr, jtab_addr).
InitDecode ==
  /\ overflow_checks \in BOOLEAN
  /\ codefile = <<>>
  /\ info = NoInfo
  /\ footer_start = 0
  /\ proc_i = 0
  /\ listing = <<>>
  /\ \E call \in Calls :
       /\ call.exit_addr \in Exits(call.enter_addr)
       /\ code = [segment |-> call.segment, cursor |-> call.enter_addr, jtab |-> call.jtab_addr]
       /\ exit_addr = call.exit_addr
       /\ procs = <<[enter_addr |-> call.enter_addr, exit_addr |-> call.exit_addr, jtab |-> call.jtab_addr]>>
  /\ op_start = code.cursor
  /\ last = NoResult
  /\ pc \in {"disassemble", "dump_p_code"}

\* What the loop does with the result r of decoding one instruction:
\* unwrap() panics on a failure, and otherwise the line has been printed.
Loop_unwrap(r) ==
  /\ op_start' = code.cursor
  /\ last' = r
  /\ code' = r.code
  /\ listing' = IF r.st = "ok"
                THEN Append(listing, [proc |-> proc_i, pos |-> code.cursor,
                                      end |-> r.code.cursor,
                                      mn |-> r.val.mn, args |-> r.val.args])
                ELSE listing
  /\ pc' = IF r.st = "ok" THEN pc ELSE "panic"

\* One turn of the loop of disassemble: do_instruction(&mut reader).unwrap()
Disassemble_step ==
  /\ pc = "disassemble"
  /\ disassemble_continues(code, exit_addr)
  /\ \E r \in {do_instruction(code)} : Loop_unwrap(r)
  /\ UNCHANGED <<overflow_checks, codefile, info, exit_addr, footer_start, proc_i, procs>>

\* The loop of disassemble ends and the function returns.
Disassemble_return ==
  /\ pc = "disassemble"
  /\ ~disassemble_continues(code, exit_addr)
  /\ pc' = "done"
  /\ UNCHANGED <<overflow_checks, codefile, info, code, exit_addr, footer_start,
                 proc_i, procs, listing, op_start, last>>

\* One turn of the loop of dump_p_code: dump_instruction(code).unwrap()
DumpPCode_step ==
  /\ pc = "dump_p_code"
  /\ dump_p_code_continues(code, exit_addr)
  /\ \E r \in {dump_instruction(code)} : Loop_unwrap(r)
  /\ UNCHANGED <<overflow_checks, codefile, info, exit_addr, footer_start, proc_i, procs>>

\* The loop of dump_p_code ends and the function returns: to dump_segment
\* when it was called for procedure proc_i, and otherwise to its own caller.
DumpPCode_return ==
  /\ pc = "dump_p_code"
  /\ ~dump_p_code_continues(code, exit_addr)
  /\ pc' = IF proc_i = 0 THEN "done" ELSE "jump_table"
  /\ UNCHANGED <<overflow_checks, codefile, info, code, exit_addr, footer_start,
                 proc_i, procs, listing, op_start, last>>

NextDecode ==
  \/ Disassemble_step
  \/ Disassemble_return
  \/ DumpPCode_step
  \/ DumpPCode_return

SpecDecode == InitDecode /\ [][NextDecode]_vars

\* The loops are straight-line code of one thread: a turn that can be taken,
\* and a return that can be made, is.
SpecDecodeFair == SpecDecode /\ WF_vars(NextDecode)

\* ------------------------------------------------------------ main.rs: the dictionary

\* parse_segment_kind with a value beyond 7 taken by its low three bits.
parse_segment_kind_masked(c, value) ==
  Ok(c, <<"Linked", "HostSegment", "SegmentProcedure", "UnitSegment",
          "SeparateProcedureSegment", "UnlinkedIntrinsicUnit", "LinkedIntrinsicUnit",
          "DataSegment">>[(value % 8) + 1])

parse_segment_kind(c, value) ==
  CASE value = 0 -> Ok(c, "Linked")
    [] value = 1 -> Ok(c, "HostSegment")
    [] value = 2 -> Ok(c, "SegmentProcedure")
    [] value = 3 -> Ok(c, "UnitSegment")
    [] value = 4 -> Ok(c, "SeparateProcedureSegment")
    [] value = 5 -> Ok(c, "UnlinkedIntrinsicUnit")
    [] value = 6 -> Ok(c, "LinkedIntrinsicUnit")
    [] value = 7 -> Ok(c, "DataSegment")
    [] OTHER -> Err(c, "InvalidData")

parse_machine_type(c, value) ==
  Ok(c, CASE value = 2 -> "PCodeAppleII"
          [] value = 7 -> "Native6502"
          [] OTHER -> "Unknown")

\* let mut vec: [SegmentInfo; 16]
NumSlots == 16

\* for e in &mut vec { e.code_addr = ..; e.code_len = ..; }, from entry k on;
\* r is Ok with the reader and vec so far, or the failure.
RECURSIVE dictionary_addrs(_, _)
dictionary_addrs(r, k) ==
  LET code_len(vec, a, l) ==
        IF l.st # "ok" THEN l
        ELSE Ok(l.code, [vec EXCEPT ![k].code_addr = a, ![k].code_len = l.val])
      code_addr(vec, a) ==
        IF a.st # "ok" THEN a ELSE code_len(vec, a.val, read_u16("slice", a.code))
  IN IF r.st # "ok" \/ k > NumSlots THEN r
     ELSE dictionary_addrs(code_addr(r.val, read_u16("slice", r.code)), k + 1)

\* for e in &mut vec { e.name = read_string(&mut codefile, 8)?; }
RECURSIVE dictionary_names(_, _)
dictionary_names(r, k) ==
  LET name(vec, n) ==
        IF n.st # "ok" THEN n ELSE Ok(n.code, [vec EXCEPT ![k].name = n.val])
  IN IF r.st # "ok" \/ k > NumSlots THEN r
     ELSE dictionary_names(name(r.val, main_read_string("slice", r.code, 8)), k + 1)

\* for e in &mut vec { e.kind = parse_segment_kind(codefile.read_u16()?)?; }
RECURSIVE dictionary_kinds(_, _)
dictionary_kinds(r, k) ==
  LET kind(vec, v) ==
        IF v.st # "ok" THEN v ELSE Ok(v.code, [vec EXCEPT ![k].kind = v.val])
      value(vec, w) ==
        IF w.st # "ok" THEN w ELSE kind(vec, parse_segment_kind(w.code, w.val))
  IN IF r.st # "ok" \/ k > NumSlots THEN r
     ELSE dictionary_kinds(value(r.val, read_u16("slice", r.code)), k + 1)

\* for e in &mut vec { e.text_addr = codefile.read_u16()?; }
RECURSIVE dictionary_text_addrs(_, _)
dictionary_text_addrs(r, k) ==
  LET text_addr(vec, w) ==
        IF w.st # "ok" THEN w ELSE Ok(w.code, [vec EXCEPT ![k].text_addr = w.val])
  IN IF r.st # "ok" \/ k > NumSlots THEN r
     ELSE dictionary_text_addrs(text_addr(r.val, read_u16("slice", r.code)), k + 1)

\* for e in &mut vec { e.num = ..; let info = ..; e.machine_type = ..; e.version = ..; }
RECURSIVE dictionary_nums(_, _)
dictionary_nums(r, k) ==
  LET machine_type(vec, n, b, mt) ==
        IF mt.st # "ok" THEN mt
        ELSE Ok(mt.code, [vec EXCEPT ![k].num = n, ![k].machine_type = mt.val,
                                     ![k].version = b \div 32])
      packed(vec, n, b) ==
        IF b.st # "ok" THEN b
        ELSE machine_type(vec, n, b.val, parse_machine_type(b.code, BitAnd(b.val, 15)))
      num(vec, n) ==
        IF n.st # "ok" THEN n ELSE packed(vec, n.val, read_u8("slice", n.code))
  IN IF r.st # "ok" \/ k > NumSlots THEN r
     ELSE dictionary_nums(num(r.val, read_u8("slice", r.code)), k + 1)

\* The filter keeping the entries that have a length.
dictionary_filter_by_len(seg) == seg.code_len > 0

\* .filter(|seg| seg.code_addr > 0)
dictionary_filter(seg) == seg.code_addr > 0

parse_segment_dictionary(file) ==
  LET collected(r) ==
        IF r.st # "ok" THEN r ELSE Ok(r.code, SelectSeq(r.val, dictionary_filter))
  IN collected(
       dictionary_nums(
         dictionary_text_addrs(
           dictionary_kinds(
             dictionary_names(
               dictionary_addrs(
                 Ok([segment |-> file, cursor |-> 0, jtab |-> 0],
                    [k \in 1..NumSlots |-> NoInfo]), 1), 1), 1), 1), 1))

\* ------------------------------------------------------------ main.rs: dump_segment

\* &buf[from..to]: the order of the two is checked first, then the end.
SliceRange(buf, from, to) ==
  IF ULt(to, from)
  THEN Panic([segment |-> buf, cursor |-> 0, jtab |-> 0], "slice index starts after its end")
  ELSE IF to < 0 \/ to > Len(buf)
  THEN Panic([segment |-> buf, cursor |-> 0, jtab |-> 0], "range end index out of range")
  ELSE Ok([segment |-> SubSeq(buf, from + 1, to), cursor |-> 0, jtab |-> 0], to - from)

\* if info.machine_type != MachineType::PCodeAppleII || info.kind != SegmentKind::Linked
dump_segment_skips(inf) ==
  inf.machine_type # "PCodeAppleII" \/ inf.kind # "Linked"

\* let block = &codefile[start..(start + len)]
dump_segment_block(file, inf) ==
  SliceRange(file, inf.code_addr * 512, inf.code_addr * 512 + inf.code_len)

\* let proc_count = block[len - 1] as usize
dump_segment_proc_count(block) ==
  LET index(i) ==
        IF i.st # "ok" THEN i
        ELSE IF i.val < 0 \/ i.val >= Len(block)
        THEN Panic(i.code, "index out of bounds")
        ELSE Ok(i.code, block[i.val + 1])
  IN index(USub([segment |-> block, cursor |-> 0, jtab |-> 0], Len(block), 1))

\* let pointer_position = len - 2 - i * 2
pointer_position(c, len, i) ==
  LET second(a) == IF a.st # "ok" THEN a ELSE USub(c, a.val, i * 2)
  IN second(USub(c, len, 2))

\* enter_addr counted from where exit_addr is counted from.
enter_addr_from_exit_ic(c, footer_end, enter_ic) == USub(c, footer_end - 6, enter_ic)

\* let enter_addr = footer_end - 4 - enter_ic as usize
enter_addr(c, footer_end, enter_ic) == USub(c, footer_end - 4, enter_ic)

\* The body of the loop of dump_segment down to PCodeReader::new: Ok with the
\* reader made and what was derived for procedure i, or the failure.
dump_segment_procedure(block, i) ==
  LET c == [segment |-> block, cursor |-> 0, jtab |-> 0]
      reader(pp, pointer, jtab, fs, f, enter, exit) ==
        IF exit.st # "ok" THEN exit
        ELSE Ok([segment |-> block, cursor |-> enter, jtab |-> jtab],
                [i |-> i, pointer_position |-> pp, pointer |-> pointer, jtab |-> jtab,
                 footer_start |-> fs,
                 data_size |-> U16LE(f[1], f[2]), param_size |-> U16LE(f[3], f[4]),
                 exit_ic |-> U16LE(f[5], f[6]), enter_ic |-> U16LE(f[7], f[8]),
                 proc_num |-> f[9], lex |-> f[10],
                 enter_addr |-> enter, exit_addr |-> exit.val])
      exit_at(pp, pointer, jtab, fs, f, enter) ==
        IF enter.st # "ok" THEN enter
        ELSE reader(pp, pointer, jtab, fs, f, enter.val,
                    USub(c, jtab + 2 - 6, U16LE(f[5], f[6])))
      fields(pp, pointer, jtab, fs, footer) ==
        IF footer.st # "ok" THEN Panic(c, footer.val)
        ELSE exit_at(pp, pointer, jtab, fs, footer.code.segment,
                     enter_addr(c, jtab + 2, U16LE(footer.code.segment[7], footer.code.segment[8])))
      footer_from(pp, pointer, jtab, fs) ==
        IF fs.st # "ok" THEN fs
        ELSE fields(pp, pointer, jtab, fs.val, SliceRange(block, fs.val, jtab + 2))
      table(pp, pointer, jtab) ==
        IF jtab.st # "ok" THEN jtab
        ELSE footer_from(pp, pointer, jtab.val, USub(c, jtab.val + 2, 10))
      entry(pp, pointer) ==
        IF pointer.st # "ok" THEN Err(c, pointer.val)
        ELSE table(pp, pointer.val, USub(c, pp, pointer.val))
      slice(pp, s) ==
        IF s.st # "ok" THEN Panic(c, s.val) ELSE entry(pp, read_u16("slice", s.code))
      position(pp) ==
        IF pp.st # "ok" THEN pp ELSE slice(pp.val, SliceFrom(block, pp.val))
  IN position(pointer_position(c, Len(block), i))

\* ------------------------------------------------------------ dump_segment: the walk

\* while reader.cursor < footer_start
jump_table_continues(c, fs) == ULt(c.cursor, fs)

\* for i in 1..proc_count + 1
proc_count(block) == block[Len(block)]

\* v as two bytes, little-endian.
LE16(v) == <<v % 256, v \div 256>>

\* A procedure as it lies in a segment from offset at on: its code, its jump
\* table and its footer, whose enter_ic and exit_ic count back from their own
\* fields to the first instruction and to the one at offset exit of the code.
ProcedureBytes(p, at) ==
  p.body \o p.jt
    \o <<2, 0, 4, 0>>
    \o LE16((at + Len(p.body) + Len(p.jt) + 4) - (at + p.exit))
    \o LE16((at + Len(p.body) + Len(p.jt) + 6) - at)
    \o <<p.num, 1>>

\* Where the procedure that lies at offset at has its jtab.
ProcedureJtab(p, at) == at + Len(p.body) + Len(p.jt) + 8

\* The bytes the procedure p takes in a segment.
ProcedureLen(p) == Len(p.body) + Len(p.jt) + 10

\* The offset at which procedure k of ps lies: they follow one another from 0.
RECURSIVE ProcedureAt(_, _)
ProcedureAt(ps, k) ==
  IF k = 1 THEN 0 ELSE ProcedureAt(ps, k - 1) + ProcedureLen(ps[k - 1])

\* The procedures k.. of ps as they lie in the segment.
RECURSIVE ProceduresBytes(_, _)
ProceduresBytes(ps, k) ==
  IF k > Len(ps) THEN <<>>
  ELSE ProcedureBytes(ps[k], ProcedureAt(ps, k)) \o ProceduresBytes(ps, k + 1)

\* The pointer table entries of the procedures k, k - 1, .., 1 of ps: the entry
\* of procedure i lies 2 * i bytes before the two trailing bytes, and counts
\* back from itself to the jtab of the procedure.
RECURSIVE PointerTable(_, _)
PointerTable(ps, k) ==
  IF k = 0 THEN <<>>
  ELSE LE16((ProcedureAt(ps, Len(ps) + 1) + 2 * (Len(ps) - k))
              - ProcedureJtab(ps[k], ProcedureAt(ps, k)))
         \o PointerTable(ps, k - 1)

\* A segment of the procedures ps: the procedures, the pointer table, the
\* segment number and the count of procedures.
SegmentBytes(ps, count) ==
  ProceduresBytes(ps, 1) \o PointerTable(ps, Len(ps)) \o <<1, count>>

\* How many procedures a segment holds at most.
MaxProcs == 2

\* The procedures the segments are made of: SLDC 0; RNP 0, a lone RNP 0, and
\* FJP through the jump table entry that lies before the footer; RNP 0.
Procedures ==
  {[body |-> <<0, 173, 0>>, exit |-> 1, jt |-> <<>>, num |-> n] : n \in {0, 1}}
    \cup {[body |-> <<173, 0>>, exit |-> 0, jt |-> <<>>, num |-> n] : n \in {0, 2}}
    \cup {[body |-> <<161, 246, 173, 0>>, exit |-> 2, jt |-> <<2, 0>>, num |-> n] : n \in {0, 3}}

ProcedureLists ==
  {ps \in UNION {[1..n -> Procedures] : n \in 0..MaxProcs} :
     \A j \in 1..Len(ps), k \in 1..Len(ps) : j < k => ps[j].body # ps[k].body}

\* The bytes a fault puts in the place of one byte of a segment.
FaultBytes == {0, 1, 255}

\* The segment seg with one byte changed.
Faulty(seg) ==
  {[k \in 1..Len(seg) |-> IF k = at THEN v ELSE seg[k]] :
     at \in 1..Len(seg), v \in FaultBytes}

\* The segments walked that are made of the procedures ps: the well-formed
\* one, the one with one more procedure counted than there are, and those with
\* one byte changed.
Segments(ps) ==
  {SegmentBytes(ps, Len(ps)), SegmentBytes(ps, Len(ps) + 1)}
    \cup Faulty(SegmentBytes(ps, Len(ps)))

MachineTypes == {"Unknown", "PCodeAppleII", "Native6502"}

SegmentKinds ==
  {"Linked", "HostSegment", "SegmentProcedure", "UnitSegment", "SeparateProcedureSegment",
   "UnlinkedIntrinsicUnit", "LinkedIntrinsicUnit", "DataSegment"}

\* The bytes of one block of the file.
BlockSize == 512

\* The dictionary entries of a segment of len bytes: of every machine type
\* and kind with the length of the segment, and for the one machine type and
\* kind that is walked also with a length one off.
Infos(len) ==
  {[NoInfo EXCEPT !.machine_type = mt, !.kind = kind, !.code_addr = 1, !.code_len = len] :
     mt \in MachineTypes, kind \in SegmentKinds}
    \cup {[NoInfo EXCEPT !.machine_type = "PCodeAppleII", !.code_addr = 1,
                         !.code_len = len + d] : d \in {-1, 1}}

\* dump_segment is called for a dictionary entry of a file that holds the
\* segment in the block the entry names: a segment of Segments with the entry
\* that is walked, and a well-formed one with every entry of Infos.
InitWalk ==
  /\ overflow_checks \in BOOLEAN
  /\ \E ps \in ProcedureLists :
       \/ /\ codefile \in {Zeros(BlockSize) \o seg : seg \in Segments(ps)}
          /\ info = [NoInfo EXCEPT !.machine_type = "PCodeAppleII", !.code_addr = 1,
                                   !.code_len = Len(codefile) - BlockSize]
       \/ /\ codefile = Zeros(BlockSize) \o SegmentBytes(ps, Len(ps))
          /\ info \in Infos(Len(codefile) - BlockSize)
  /\ code = [segment |-> <<>>, cursor |-> 0, jtab |-> 0]
  /\ exit_addr = 0
  /\ footer_start = 0
  /\ proc_i = 0
  /\ procs = <<>>
  /\ listing = <<>>
  /\ op_start = 0
  /\ last = NoResult
  /\ pc = "dump_segment"

\* What dump_segment does with the block and the count it has read from it.
DumpSegment_block(b, n) ==
  IF b.st # "ok" \/ n.st # "ok"
  THEN /\ last' = (IF b.st # "ok" THEN b ELSE n)
       /\ pc' = "panic"
       /\ UNCHANGED <<code, proc_i>>
  ELSE /\ code' = b.code
       /\ proc_i' = 1
       /\ last' = NoResult
       /\ pc' = "procedure"

\* dump_segment down to its loop: a segment of another machine or kind is
\* left alone, and otherwise the block is cut out and its count is read.
DumpSegment_enter ==
  /\ pc = "dump_segment"
  /\ IF dump_segment_skips(info)
     THEN /\ pc' = "returned"
          /\ last' = Ok(code, "skipped")
          /\ UNCHANGED <<code, proc_i>>
     ELSE DumpSegment_block(dump_segment_block(codefile, info),
                            dump_segment_proc_count(dump_segment_block(codefile, info).code.segment))
  /\ UNCHANGED <<overflow_checks, codefile, info, exit_addr, footer_start, procs, listing, op_start>>

\* What the loop of dump_segment does with the result r of its first part.
DumpSegment_header(r) ==
  IF r.st = "ok"
  THEN /\ code' = r.code
       /\ exit_addr' = r.val.exit_addr
       /\ footer_start' = r.val.footer_start
       /\ procs' = Append(procs, r.val)
       /\ op_start' = r.code.cursor
       /\ last' = NoResult
       /\ pc' = "dump_p_code"
  ELSE /\ last' = r
       /\ pc' = (IF r.st = "panic" THEN "panic" ELSE "returned")
       /\ UNCHANGED <<code, exit_addr, footer_start, procs, op_start>>

\* A turn of the loop of dump_segment, down to the call of dump_p_code.
DumpSegment_procedure ==
  /\ pc = "procedure"
  /\ proc_i <= proc_count(code.segment)
  /\ DumpSegment_header(dump_segment_procedure(code.segment, proc_i))
  /\ UNCHANGED <<overflow_checks, codefile, info, proc_i, listing>>

\* The loop of dump_segment ends: Ok(())
DumpSegment_return ==
  /\ pc = "procedure"
  /\ proc_i > proc_count(code.segment)
  /\ last' = Ok(code, "walked")
  /\ pc' = "returned"
  /\ UNCHANGED <<overflow_checks, codefile, info, code, exit_addr, footer_start,
                 proc_i, procs, listing, op_start>>

\* What the jump table loop does with the word r it has read.
DumpSegment_offset(r) ==
  IF r.st = "ok"
  THEN /\ code' = r.code
       /\ UNCHANGED <<last, pc>>
  ELSE /\ last' = r
       /\ pc' = (IF r.st = "panic" THEN "panic" ELSE "returned")
       /\ UNCHANGED code

\* A turn of the jump table loop: reader.read_i16::<LittleEndian>()?
DumpSegment_jump_table ==
  /\ pc = "jump_table"
  /\ jump_table_continues(code, footer_start)
  /\ DumpSegment_offset(read_i16("PCodeReader", code))
  /\ UNCHANGED <<overflow_checks, codefile, info, exit_addr, footer_start, proc_i,
                 procs, listing, op_start>>

\* The jump table loop ends, and with it the turn of the loop of dump_segment.
DumpSegment_next ==
  /\ pc = "jump_table"
  /\ ~jump_table_continues(code, footer_start)
  /\ proc_i' = proc_i + 1
  /\ pc' = "procedure"
  /\ UNCHANGED <<overflow_checks, codefile, info, code, exit_addr, footer_start,
                 procs, listing, op_start, last>>

NextWalk ==
  \/ DumpSegment_enter
  \/ DumpSegment_procedure
  \/ DumpSegment_return
  \/ DumpPCode_step
  \/ DumpPCode_return
  \/ DumpSegment_jump_table
  \/ DumpSegment_next

SpecWalk == InitWalk /\ [][NextWalk]_vars

\* ------------------------------------------------------------ the dictionary read

\* The sequences f[k], f[k + 1], .., f[NumSlots] one after another.
RECURSIVE Concat(_, _)
Concat(f, k) == IF k > NumSlots THEN <<>> ELSE f[k] \o Concat(f, k + 1)

\* The names given to the slots: text of 8 bytes with blanks after it, before
\* it, or with none, and for a slot of bad a byte that is no UTF-8.
SlotName(j, bad) ==
  IF j \in bad THEN <<83, 69, 71, 255, 32, 32, 32, 32>>
  ELSE IF j = NumSlots THEN <<76, 65, 83, 84, 83, 69, 71, 64 + j>>
  ELSE IF j % 2 = 0 THEN <<32, 9, 83, 69, 71, 64 + j, 32, 32>>
  ELSE <<83, 69, 71, 64 + j, 32, 32, 32, 10>>

\* The second byte of the last array for slot j: a version above a machine
\* type, and for every third slot bit 4 between them.
SlotPacked(j) ==
  (j % 8) * 32 + (IF j % 3 = 0 THEN 16 ELSE 0) + <<2, 7, 0, 9>>[(j % 4) + 1]

\* A dictionary: slot j is in use (its code_addr is j) when j is in used, its
\* kind is kinds[j], and its other fields are told from those of every other
\* slot.
DictionaryBytes(used, kinds, bad) ==
  Concat([j \in 1..NumSlots |-> LE16(IF j \in used THEN j ELSE 0) \o LE16(100 + j)], 1)
    \o Concat([j \in 1..NumSlots |-> SlotName(j, bad)], 1)
    \o Concat([j \in 1..NumSlots |-> LE16(kinds[j])], 1)
    \o Concat([j \in 1..NumSlots |-> LE16(200 + j)], 1)
    \o Concat([j \in 1..NumSlots |-> <<j, SlotPacked(j)>>], 1)

\* The slots that may be in use besides all and none of them.
SomeSlots == {1, 2, 9, 16}

UsedSets == (SUBSET SomeSlots) \cup {1..NumSlots}

\* The kinds of a dictionary: each of 0..7 in turn, and with one slot of
\* SomeSlots given a value that is no kind.
KindLists ==
  {[j \in 1..NumSlots |-> (j - 1) % 8]}
    \cup {[j \in 1..NumSlots |-> IF j = at THEN v ELSE (j - 1) % 8] :
            at \in SomeSlots, v \in {8, 255, 256, 65535}}

\* How many bytes a file may have after its dictionary.
MaxRest == 2

\* The files read: a dictionary with 0..MaxRest bytes after it, and one cut
\* short within each of its arrays.
Files(d) ==
  {d \o Zeros(n) : n \in 0..MaxRest}
    \cup {SubSeq(d, 1, n) : n \in {0, 63, 100, 191, 200, 223, 250, 287}}

InitDict ==
  /\ overflow_checks \in BOOLEAN
  /\ info = NoInfo
  /\ code = [segment |-> <<>>, cursor |-> 0, jtab |-> 0]
  /\ exit_addr = 0
  /\ footer_start = 0
  /\ proc_i = 0
  /\ procs = <<>>
  /\ listing = <<>>
  /\ last = NoResult
  /\ \/ /\ pc = "parse_segment_kind"
        /\ codefile = <<>>
        /\ op_start \in 0..65535
     \/ /\ pc = "parse_segment_dictionary"
        /\ op_start = 0
        /\ \E used \in UsedSets, kinds \in KindLists, bad \in {{}, {3}} :
             codefile \in Files(DictionaryBytes(used, kinds, bad))

\* parse_segment_kind(value), with the value held in op_start
Apply_parse_segment_kind ==
  /\ pc = "parse_segment_kind"
  /\ last' = parse_segment_kind(code, op_start)
  /\ pc' = "kind"
  /\ UNCHANGED <<overflow_checks, codefile, info, code, exit_addr, footer_start,
                 proc_i, procs, listing, op_start>>

\* let segment_info = parse_segment_dictionary(&codefile)
Apply_parse_segment_dictionary ==
  /\ pc = "parse_segment_dictionary"
  /\ last' = parse_segment_dictionary(codefile)
  /\ pc' = "dictionary"
  /\ UNCHANGED <<overflow_checks, codefile, info, code, exit_addr, footer_start,
                 proc_i, procs, listing, op_start>>

NextDict == Apply_parse_segment_kind \/ Apply_parse_segment_dictionary

SpecDict == InitDict /\ [][NextDict]_vars

\* ------------------------------------------------------------ the "big" operand

\* A reader standing on a "big" operand: every first byte, followed by every
\* second byte or by the end of the buffer.
InitBig ==
  /\ overflow_checks \in BOOLEAN
  /\ Idle
  /\ \E pad \in 0..MaxPad, b \in Byte :
       \E rest \in {<<>>} \cup {<<c>> : c \in Byte} :
         code = [segment |-> Zeros(pad) \o <<b>> \o rest, cursor |-> pad, jtab |-> 0]
  /\ op_start = code.cursor
  /\ last = NoResult
  /\ pc = "operand"

Apply_do_b ==
  /\ pc = "operand"
  /\ op_start' = code.cursor
  /\ last' = do_b(code)
  /\ code' = last'.code
  /\ pc' = "do_b"
  /\ IdleUnchanged

Apply_parse_param_b ==
  /\ pc = "operand"
  /\ op_start' = code.cursor
  /\ last' = parse_param_b(code)
  /\ code' = last'.code
  /\ pc' = "parse_param_b"
  /\ IdleUnchanged

NextBig == Apply_do_b \/ Apply_parse_param_b

SpecBig == InitBig /\ [][NextBig]_vars

\* v is (b & 0x7F) | c: bit 7 of v is bit 7 of c, and each lower bit of v is
\* set exactly when it is set in b or in c.
IsLowSevenOr(v, b, c) ==
  /\ v \in 0..255
  /\ v >= 128 <=> c >= 128
  /\ \A k \in 0..6 :
       ((v \div (2 ^ k)) % 2 = 1) <=>
         (((b \div (2 ^ k)) % 2 = 1) \/ ((c \div (2 ^ k)) % 2 = 1))

\* C9: the "big" operand decoders (do_b, parse_param_b) return the first byte b
\* and advance the cursor by 1 when b < 128, return (b & 0x7F) | c and advance
\* by 2 when b >= 128 and a byte c follows (0x85, 0x10 give 0x15), and the
\* value returned is always in 0..255.
C9_BigOperand ==
  (pc \in {"do_b", "parse_param_b"} /\ op_start < Len(code.segment)) =>
    LET b == code.segment[op_start + 1]
    IN /\ b < 128 =>
            last.st = "ok" /\ last.val = b /\ code.cursor = op_start + 1
       /\ (b >= 128 /\ op_start + 1 < Len(code.segment)) =>
            /\ last.st = "ok"
            /\ IsLowSevenOr(last.val, b, code.segment[op_start + 2])
            /\ code.cursor = op_start + 2
            /\ (b = 133 /\ code.segment[op_start + 2] = 16) => last.val = 21
       /\ last.st = "ok" => last.val \in 0..255

\* A two-byte operand has been decoded by each decoder.
C9_Witness ==
  /\ pc = "parse_param_b"
  /\ Len(code.segment) = op_start + 2
  /\ code.segment[op_start + 1] = 133
  /\ code.segment[op_start + 2] = 16
  /\ last.st = "ok"
  /\ last.val = 21
  /\ code.cursor = op_start + 2

\* ------------------------------------------------------------ the decode loop

\* The byte of the segment at offset o.
ByteAt(o) == code.segment[o + 1]

\* An instruction has been decoded, or has failed to: it began at op_start,
\* on a byte of the segment, and last is what became of it.
Stepped == last.st # "none" /\ op_start >= 0 /\ op_start < Len(code.segment)

\* The lines printed are instructions that follow one another from enter_addr
\* on, and each of them starts at exit_addr or before it.
ListingContiguous ==
  \A k \in 1..Len(listing) :
    /\ listing[k].pos = (IF k = 1 THEN procs[1].enter_addr ELSE listing[k - 1].end)
    /\ listing[k].end > listing[k].pos
    /\ listing[k].pos <= exit_addr

\* C2 as stated: when the decode loop (disassemble, dump_p_code) stops without
\* error the decoder has consumed exactly the bytes enter_addr..exit_addr: the
\* last instruction ends at exit_addr and nothing beyond it has been read.
C2_ConsumesExactly ==
  pc = "done" => code.cursor = exit_addr + 1

\* C2 as amended: the instructions decoded follow one another from enter_addr,
\* each starts at exit_addr or before it, and when the loop stops without error
\* the cursor is where the last of them ended, beyond exit_addr (by however many
\* bytes the instruction that started at or before exit_addr takes); nothing
\* is decoded when enter_addr is beyond exit_addr.
C2_StopsPastExit ==
  /\ ListingContiguous
  /\ pc = "done" =>
       /\ code.cursor > exit_addr
       /\ code.cursor = (IF listing = <<>> THEN procs[1].enter_addr
                         ELSE listing[Len(listing)].end)
       /\ procs[1].enter_addr > exit_addr => listing = <<>>

\* The loop has stopped after an instruction that began at exit_addr and took
\* more than one byte.
C2_Witness ==
  /\ pc = "done"
  /\ listing # <<>>
  /\ listing[Len(listing)].pos = exit_addr
  /\ code.cursor > exit_addr + 1

\* ------------------------------------------------------------ unknown opcodes

\* The second bytes that have a mapping of their own under a two-level opcode.
MappedFlavors(x) ==
  CASE x \in {175, 183} -> {2, 4, 6, 8, 10, 12}
    [] x \in {180, 176} -> {2, 4, 6, 8, 10}
    [] x \in {181, 177} -> {2, 4, 6, 10}
    [] x = 158 -> {1, 2, 3, 4, 9, 10, 11, 22, 23, 31, 32, 35}

\* The instruction decoded last began with an opcode without a mapping, or with
\* one of the opcodes twoLevel and a second byte without a mapping.
MetUnknown(twoLevel) ==
  /\ Stepped
  /\ \/ ByteAt(op_start) \in 210..212
     \/ /\ ByteAt(op_start) \in twoLevel
        /\ op_start + 1 < Len(code.segment)
        /\ ByteAt(op_start + 1) \notin MappedFlavors(ByteAt(op_start))

\* The decode ended at the instruction decoded last with a fatal failure, and
\* no line was printed for it.
EndedFatally ==
  /\ last.st = "panic"
  /\ last.val \in {"Unknown opcode", "Unknown flavor"}
  /\ pc = "panic"
  /\ \A k \in 1..Len(listing) : listing[k].pos < op_start

\* C4 as stated: an opcode byte without a mapping (210, 211, 212), or a second
\* byte without a mapping under a two-level opcode (175, 183, 180, 181, 176,
\* 177, 158), ends the decode at that instruction with a fatal failure.
C4_UnknownIsFatalWith158 ==
  MetUnknown({175, 183, 180, 181, 176, 177, 158}) => EndedFatally

\* C4 as amended: an opcode byte without a mapping (210, 211, 212), or a second
\* byte without a mapping under 175, 183, 180, 181, 176 or 177, ends the decode
\* at that instruction with a fatal failure (the process panics): no line is
\* printed for it and nothing is decoded after it.  Under 158 every second
\* byte is decoded: one without a mapping of its own prints CSP with the byte
\* as its operand, and the decode goes on.
C4_UnknownIsFatal ==
  /\ [](MetUnknown({175, 183, 180, 181, 176, 177}) => EndedFatally)
  /\ []((Stepped /\ ByteAt(op_start) = 158 /\ op_start + 1 < Len(code.segment)
           /\ ByteAt(op_start + 1) \notin MappedFlavors(158)) =>
          /\ last.st = "ok"
          /\ last.val = [mn |-> "CSP", args |-> <<ByteAt(op_start + 1)>>]
          /\ code.cursor = op_start + 2
          /\ pc # "panic")
  /\ [][pc = "panic" => UNCHANGED vars]_vars

\* An opcode without a mapping has been met after an instruction was printed.
C4_Witness ==
  /\ MetUnknown({175, 183, 180, 181, 176, 177})
  /\ ByteAt(op_start) = 210
  /\ pc = "panic"
  /\ listing # <<>>

\* ------------------------------------------------------------ jump operands

\* C8: a jump instruction (185, 161) that starts at offset P with jump table
\* base J and operand byte off prints the no-op annotation when off = 0, the
\* target P + off when off > 0, and when off < 0 the target (J + off) - w,
\* where w is the 16-bit little-endian value at offset J + off (the entry lies
\* within the segment and w is at most J + off); the operand takes one byte.
C8_JumpResolution ==
  (Stepped /\ ByteAt(op_start) \in {185, 161} /\ op_start + 1 < Len(code.segment)) =>
    LET P == op_start
        J == code.jtab
        off == I8(ByteAt(P + 1))
        decoded(args) ==
          /\ last.st = "ok"
          /\ last.val.mn = (IF ByteAt(P) = 185 THEN "UJP" ELSE "FJP")
          /\ last.val.args = <<args>>
          /\ code.cursor = P + 2
    IN /\ off = 0 => decoded(<<0>>)
       /\ off > 0 => decoded(<<off, P + off>>)
       /\ (off < 0 /\ J + off >= 0 /\ J + off + 2 <= Len(code.segment)
             /\ U16LE(ByteAt(J + off), ByteAt(J + off + 1)) <= J + off) =>
            decoded(<<off, (J + off) - U16LE(ByteAt(J + off), ByteAt(J + off + 1))>>)

\* A backward jump has been resolved through a jump table entry that is not 0.
C8_Witness ==
  /\ Stepped
  /\ ByteAt(op_start) = 185
  /\ op_start + 1 < Len(code.segment)
  /\ ByteAt(op_start + 1) = 254
  /\ code.jtab = op_start + 15
  /\ last.st = "ok"
  /\ last.val.args = <<<<-2, op_start + 12>>>>

\* ------------------------------------------------------------ case jumps

\* C10: for the case jump (172) with bounds lo <= hi read at the even offset
\* a after the opcode, the decoder reads hi - lo + 1 case targets and then one
\* trailing word, and the operand takes 4 + 2 * (hi - lo + 1) + 2 bytes from a.
C10_CaseJumpLength ==
  (Stepped /\ ByteAt(op_start) = 172 /\ last.st = "ok") =>
    LET a == IF (op_start + 1) % 2 = 1 THEN op_start + 2 ELSE op_start + 1
        lo == I16LE(ByteAt(a), ByteAt(a + 1))
        hi == I16LE(ByteAt(a + 2), ByteAt(a + 3))
    IN lo <= hi =>
         /\ Len(last.val.args[1]) = 2 + (hi - lo + 1) + 1
         /\ code.cursor = a + 4 + 2 * (hi - lo + 1) + 2

\* ------------------------------------------------------------ the walk

\* C1: a procedure the walker locates is handed to the instruction decoder
\* only if the sentinel byte segment[jtab] is not 0, and no instruction is
\* decoded of a procedure whose sentinel byte is 0.
C1_SentinelDispatch ==
  /\ (pc = "dump_p_code" /\ proc_i >= 1) => code.segment[code.jtab + 1] # 0
  /\ \A k \in 1..Len(listing) :
       listing[k].proc >= 1 => code.segment[procs[listing[k].proc].jtab + 1] # 0

\* C3: in a segment of length len whose last byte is proc_count the walker
\* processes the procedures i = 1, 2, .. in this order, proc_count of them when
\* it completes, and for each i it uses pointer_position = len - 2 - 2 * i,
\* jtab = pointer_position - (the 16-bit value at pointer_position), the footer
\* [jtab - 8, jtab + 2), enter_addr = jtab + 2 - 4 - enter_ic and
\* exit_addr = jtab + 2 - 6 - exit_ic, with exit_ic and enter_ic the third and
\* fourth 16-bit fields of the footer; the decoding of it starts at enter_addr.
C3_WalkerFormulas ==
  /\ \A k \in 1..Len(procs) :
       LET pp == Len(code.segment) - 2 - 2 * k
           jt == pp - U16LE(ByteAt(pp), ByteAt(pp + 1))
       IN /\ procs[k].i = k
          /\ procs[k].pointer_position = pp
          /\ procs[k].jtab = jt
          /\ procs[k].footer_start = jt - 8
          /\ procs[k].exit_ic = U16LE(ByteAt(jt - 8 + 4), ByteAt(jt - 8 + 5))
          /\ procs[k].enter_ic = U16LE(ByteAt(jt - 8 + 6), ByteAt(jt - 8 + 7))
          /\ procs[k].enter_addr = jt + 2 - 4 - procs[k].enter_ic
          /\ procs[k].exit_addr = jt + 2 - 6 - procs[k].exit_ic
  /\ proc_i >= 1 => Len(procs) \in {proc_i - 1, proc_i}
  /\ (pc = "returned" /\ last = Ok(code, "walked")) =>
       Len(procs) = ByteAt(Len(code.segment) - 1)
  /\ \A m \in 1..Len(listing) :
       (m = 1 \/ listing[m - 1].proc # listing[m].proc) =>
         listing[m].pos = procs[listing[m].proc].enter_addr

\* A segment of two procedures has been walked to its end, and instructions
\* of both have been decoded.
C3_Witness ==
  /\ pc = "returned"
  /\ last = Ok(code, "walked")
  /\ Len(procs) = 2
  /\ \A k \in 1..2 :
       /\ procs[k].enter_addr < procs[k].exit_addr
       /\ \E m \in 1..Len(listing) : listing[m].proc = k
  /\ procs[1].pointer_position > procs[2].pointer_position

\* What the process says when it aborts on an index, a range or a difference
\* that lies outside of the segment.
OutOfBounds ==
  {"attempt to subtract with overflow", "range start index out of range",
   "range end index out of range", "slice index starts after its end",
   "index out of bounds", "called Option::unwrap() on a None value",
   "called Result::unwrap() on an Err value"}

\* C5: when a jump table index, a pointer table position, a computed jtab or
\* the range of a footer falls outside the segment, the operation returns an
\* error, and the process is not aborted.
C5_BoundsAreReturned ==
  (last.st \in {"err", "panic"} /\ last.val \in OutOfBounds) =>
    (last.st = "err" /\ pc = "returned")

\* ------------------------------------------------------------ the dictionary

\* The 16-bit word at offset o of the file.
FileWord(o) == U16LE(codefile[o + 1], codefile[o + 2])

\* The kinds in the order of their values.
KindOf(v) ==
  <<"Linked", "HostSegment", "SegmentProcedure", "UnitSegment",
    "SeparateProcedureSegment", "UnlinkedIntrinsicUnit", "LinkedIntrinsicUnit",
    "DataSegment">>[v + 1]

\* The entry of slot j (from 0), each field at its place in its own array.
SlotEntry(j) ==
  [code_addr |-> FileWord(4 * j),
   code_len |-> FileWord(4 * j + 2),
   name |-> trim_ascii(SubSeq(codefile, 64 + 8 * j + 1, 64 + 8 * j + 8)),
   kind |-> KindOf(FileWord(192 + 2 * j)),
   text_addr |-> FileWord(224 + 2 * j),
   num |-> codefile[256 + 2 * j + 1],
   machine_type |-> CASE codefile[257 + 2 * j + 1] % 16 = 2 -> "PCodeAppleII"
                      [] codefile[257 + 2 * j + 1] % 16 = 7 -> "Native6502"
                      [] OTHER -> "Unknown",
   version |-> codefile[257 + 2 * j + 1] \div 32]

\* C6: a dictionary that parses gives the slots whose code_addr is not 0, each
\* once and in the order of the slots, and every entry has the fields of its
\* own slot in the five arrays.
C6_UsedSlotsInOrder ==
  (pc = "dictionary" /\ last.st = "ok") =>
    last.val = SelectSeq([k \in 1..NumSlots |-> SlotEntry(k - 1)],
                         LAMBDA e : e.code_addr # 0)

\* A dictionary has parsed to the slots 2, 9 and 16 of it: an unused slot
\* comes first, and used slots have unused ones between them.
C6_Witness ==
  /\ pc = "dictionary"
  /\ last.st = "ok"
  /\ Len(last.val) = 3
  /\ last.val[1].num = 2 /\ last.val[1].name = <<83, 69, 71, 66>>
  /\ last.val[2].num = 9 /\ last.val[2].machine_type = "Native6502"
  /\ last.val[3].num = 16 /\ last.val[3].kind = "DataSegment"

\* The slots (from 0) whose kind word lies within the file and is no kind.
BadKindSlots ==
  {j \in 0..(NumSlots - 1) : Len(codefile) >= 192 + 2 * j + 2 /\ FileWord(192 + 2 * j) > 7}

\* C7: parse_segment_kind takes 0..7, each to a kind of its own, and gives the
\* error for every other 16-bit value; a dictionary with such a value in one
\* of its kind slots fails to parse with that error, and gives no entries.
C7_KindsChecked ==
  /\ pc = "kind" =>
       IF op_start \in 0..7
       THEN /\ last.st = "ok"
            /\ last.val = KindOf(op_start)
            /\ \A v \in 0..7 : KindOf(v) = last.val => v = op_start
       ELSE last.st = "err" /\ last.val = "InvalidData"
  /\ (pc = "dictionary" /\ BadKindSlots # {}) =>
       (last.st = "err" /\ last.val = "InvalidData")

\* A dictionary whose names are all text, and whose kinds are kinds but for
\* the 8 of its last slot, has failed after the word of that slot.
C7_Witness ==
  /\ pc = "dictionary"
  /\ BadKindSlots = {NumSlots - 1}
  /\ FileWord(192 + 2 * (NumSlots - 1)) = 8
  /\ codefile[64 + 8 * 2 + 4] # 255
  /\ last.st = "err"
  /\ last.val = "InvalidData"
  /\ last.code.cursor = 224

\* ------------------------------------------------------------ short forms

\* The opcode bytes that do_instruction and dump_instruction print as mn.
Band(mn) ==
  {b \in Byte :
     LET seg == [segment |-> <<b>>, cursor |-> 0, jtab |-> 1]
     IN /\ do_instruction(seg).st = "ok" /\ do_instruction(seg).val.mn = mn
        /\ dump_instruction(seg).st = "ok" /\ dump_instruction(seg).val.mn = mn}

\* The first byte of a band.
BandBase(band) == CHOOSE b \in band : \A c \in band : b <= c

\* The byte 0..127 at op_start has been decoded to SLDC with itself as operand.
ShortConstant ==
  (Stepped /\ ByteAt(op_start) \in 0..127) =>
    /\ last.st = "ok"
    /\ last.val = [mn |-> "SLDC", args |-> <<ByteAt(op_start)>>]
    /\ code.cursor = op_start + 1

\* C11 as stated: a byte 0..127 decodes to the short constant load of that
\* byte; each of the short local, global and indirect loads has a band of 16
\* consecutive bytes, and its operand is the byte less the first byte of its
\* band; every short form takes 1 byte.
C11_ShortFormsFromBase ==
  /\ ShortConstant
  /\ (Stepped /\ last.st = "ok" /\ last.val.mn \in {"SLDL", "SLDO", "SIND"}) =>
       LET band == Band(last.val.mn)
           base == BandBase(band)
       IN /\ band = base..(base + 15)
          /\ last.val.args = <<ByteAt(op_start) - base>>
          /\ code.cursor = op_start + 1

\* The band of a short load and what is taken from the byte for its operand.
ShortLoads ==
  {[mn |-> "SLDL", first |-> 216, last |-> 231, less |-> 215],
   [mn |-> "SLDO", first |-> 232, last |-> 247, less |-> 231],
   [mn |-> "SIND", first |-> 248, last |-> 255, less |-> 248]}

\* C11: a byte 0..127 decodes to the short constant load of that byte; the
\* short local load has the 16 bytes 216..231 with operand byte - 215, the
\* short global load the 16 bytes 232..247 with operand byte - 231, and the
\* short indirect load the 8 bytes 248..255 with operand byte - 248; no other
\* byte decodes to one of them, and every short form takes 1 byte.
C11_ShortForms ==
  /\ ShortConstant
  /\ \A f \in ShortLoads :
       /\ (Stepped /\ ByteAt(op_start) \in f.first..f.last) =>
            /\ last.st = "ok"
            /\ last.val = [mn |-> f.mn, args |-> <<ByteAt(op_start) - f.less>>]
            /\ code.cursor = op_start + 1
       /\ (Stepped /\ last.st = "ok" /\ last.val.mn = f.mn) =>
            ByteAt(op_start) \in f.first..f.last

\* The last byte of the band of the short local load has been decoded, to
\* SLDL 16, and the cursor is one byte on.
C11_Witness ==
  /\ Stepped
  /\ ByteAt(op_start) = 231
  /\ last.st = "ok"
  /\ last.val = [mn |-> "SLDL", args |-> <<16>>]
  /\ code.cursor = op_start + 1

\* ------------------------------------------------------------ the end of the loop

\* Every instruction printed ends at least 1 byte after where it starts, and
\* starts after the one before it.
ListingIncreasing ==
  \A k \in 1..Len(listing) :
    /\ listing[k].end >= listing[k].pos + 1
    /\ k > 1 => listing[k].pos > listing[k - 1].pos

\* C12: the decode loop gives a finite sequence: every instruction decoded
\* moves the cursor on by at least 1 byte, the offsets of the instructions
\* increase, and the loop stops in the end, with the cursor beyond exit_addr or
\* on a failure of the decoding.
C12_LoopStops ==
  /\ []ListingIncreasing
  /\ [](Stepped /\ last.st = "ok" => code.cursor >= op_start + 1)
  /\ <>(pc \in {"done", "panic"})
  /\ [](pc = "done" => ~ULe(code.cursor, exit_addr))
  /\ [](pc = "panic" => last.st \in {"err", "panic"})

\* The loop has stopped beyond exit_addr after three instructions.
C12_Witness ==
  /\ pc = "done"
  /\ Len(listing) = 3
  /\ listing[3].pos <= exit_addr
  /\ code.cursor > exit_addr

\* ------------------------------------------------------------ padding

\* The loop has decoded the instruction at op_start and has not returned.
Decoded == Stepped /\ last.st = "ok" /\ pc \in {"disassemble", "dump_p_code"}

\* The instruction at op_start decoded again, by the decoder of the loop at
\* hand, in the segment seg.
Redecode(seg) ==
  IF pc = "disassemble"
  THEN do_instruction([segment |-> seg, cursor |-> op_start, jtab |-> code.jtab])
  ELSE dump_instruction([segment |-> seg, cursor |-> op_start, jtab |-> code.jtab])

\* The values a byte of the instruction is given to find out if it was read.
ProbeBytes == {0, 1, 65, 128, 255}

\* The result r is that of the instruction decoded last.
SameLine(r) == r.st = last.st /\ r.val = last.val /\ r.code.cursor = code.cursor

\* The bytes of the instruction decoded last that it has skipped: whatever
\* one of them is, the line printed and the end of the instruction are the same.
Skipped ==
  {p \in op_start..(code.cursor - 1) :
     \A x \in ProbeBytes : SameLine(Redecode([code.segment EXCEPT ![p + 1] = x]))}

\* The even offset at o or after it, and the byte skipped to get there.
EvenFrom(o) == IF o % 2 = 1 THEN o + 1 ELSE o

Pad(o) == IF o % 2 = 1 THEN {o} ELSE {}

\* C13: a byte is skipped only before the words of the constant pool operand
\* (179) and before the case jump operand (172), and it is one byte exactly
\* when the cursor is odd there: the words of 179 (when it has any) and those
\* of 172 start at an even offset of the segment, and no other opcode skips a
\* byte.
C13_PaddingOnlyForWords ==
  Decoded =>
    CASE ByteAt(op_start) = 179 ->
           LET n == ByteAt(op_start + 1)
               a == EvenFrom(op_start + 2)
           IN IF n = 0
              THEN Skipped = {} /\ code.cursor = op_start + 2
              ELSE /\ Skipped = Pad(op_start + 2)
                   /\ a % 2 = 0
                   /\ last.val.args[1] =
                        <<n>> \o [k \in 1..n |-> U16LE(ByteAt(a + 2 * k - 2), ByteAt(a + 2 * k - 1))]
                   /\ code.cursor = a + 2 * n
      [] ByteAt(op_start) = 172 ->
           LET a == EvenFrom(op_start + 1)
           IN /\ Skipped = Pad(op_start + 1)
              /\ a % 2 = 0
              /\ last.val.args[1][1] = I16LE(ByteAt(a), ByteAt(a + 1))
              /\ last.val.args[1][2] = I16LE(ByteAt(a + 2), ByteAt(a + 3))
      [] OTHER -> Skipped = {}

\* A constant pool operand of two words has been decoded whose count ended
\* before an odd offset: the byte there was skipped.
C13_Witness ==
  /\ Decoded
  /\ ByteAt(op_start) = 179
  /\ ByteAt(op_start + 1) = 2
  /\ op_start % 2 = 1
  /\ Skipped = {op_start + 2}
  /\ code.cursor = op_start + 7

\* ------------------------------------------------------------ the two decoders

\* format!("{:x}", w) of an i16: the digits of its 16 bits, none of them a
\* leading zero; and "{:04x}": the same with zeros before it up to 4 digits.
RECURSIVE HexDigits(_)
HexDigits(v) ==
  IF v < 16 THEN <<SubSeq("0123456789abcdef", v + 1, v + 1)>>
  ELSE HexDigits(v \div 16) \o <<SubSeq("0123456789abcdef", (v % 16) + 1, (v % 16) + 1)>>

RECURSIVE ZeroPad(_, _)
ZeroPad(t, width) == IF Len(t) >= width THEN t ELSE ZeroPad(<<"0">> \o t, width)

\* do_xjp_args: .map(|w| format!("{:x}h", w)) over the cases
do_xjp_args_cases(cases) ==
  [k \in 1..Len(cases) |-> HexDigits((cases[k] + 65536) % 65536) \o <<"h">>]

\* parse_xjp_params: .map(|w| format!("{:04x}h", w)) over the cases
parse_xjp_params_cases(cases) ==
  [k \in 1..Len(cases) |-> ZeroPad(HexDigits((cases[k] + 65536) % 65536), 4) \o <<"h">>]

\* The reader the instruction decoded last was decoded from.
ReaderBefore == [code EXCEPT !.cursor = op_start]

\* C14: do_instruction and dump_instruction are step-equivalent: from the
\* same segment, cursor and jtab, after every instruction both have the same
\* cursor, the same mnemonic and operand values, and the same outcome (success,
\* returned error, or abort).
C14_DecodersAgree ==
  last.st # "none" =>
    /\ do_instruction(ReaderBefore) = last
    /\ dump_instruction(ReaderBefore) = last

\* Both decoders have taken a case jump at an even offset, over the byte
\* skipped after it, to the same words and the same end; the texts they print
\* for its case words (0) are not the same.
C14_Witness ==
  /\ Len(listing) = 1
  /\ last.st = "ok"
  /\ last.val.mn = "XJP"
  /\ op_start % 2 = 0
  /\ code.cursor = op_start + 12
  /\ do_instruction(ReaderBefore).val.args = last.val.args
  /\ dump_instruction(ReaderBefore).code.cursor = code.cursor
  /\ do_xjp_args_cases(SubSeq(last.val.args[1], 3, 4)) = <<<<"0", "h">>, <<"0", "h">>>>
  /\ parse_xjp_params_cases(SubSeq(last.val.args[1], 3, 4))
       = <<<<"0", "0", "0", "0", "h">>, <<"0", "0", "0", "0", "h">>>>

\* ------------------------------------------------------------ read.rs: reading from the end

\* &self[self.len() - n..] as a reader: the view c from n bytes before its end.
read_down_tail(c, n) == [c EXCEPT !.cursor = Len(c.segment) - n]

\* value = ..?; *self = &self[..self.len() - n]; Ok(value): the failure r of
\* the read is returned before the view is cut, and otherwise the view loses
\* its last n bytes.
read_down_cut(c, n, r) ==
  IF r.st # "ok" THEN [r EXCEPT !.code = c]
  ELSE Ok([c EXCEPT !.segment = SubSeq(c.segment, 1, Len(c.segment) - n)], r.val)

\* CrateSliceExt::read_down_u8
read_down_u8(c) ==
  read_down_cut(c, Min(Len(c.segment), 1),
                read_u8("slice", read_down_tail(c, Min(Len(c.segment), 1))))

\* read_down_u16_le with the view left as it was.
read_down_u16_le_in_place(c) ==
  [read_u16("slice", read_down_tail(c, Min(Len(c.segment), 2))) EXCEPT !.code = c]

\* CrateSliceExt::read_down_u16_le
read_down_u16_le(c) ==
  read_down_cut(c, Min(Len(c.segment), 2),
                read_u16("slice", read_down_tail(c, Min(Len(c.segment), 2))))

\* CrateSliceExt::read_down_u16_le_into, for a buf of m words: the value is
\* what buf holds after it.
read_down_u16_le_into(c, m) ==
  read_down_cut(c, Min(Len(c.segment), m * 2),
                read_u16_into("slice", read_down_tail(c, Min(Len(c.segment), m * 2)), m))

\* The longest view read from, the longest buf, and the most reads made of
\* one view.
MaxView == 6

MaxWords == 2

MaxReads == 3

\* The views read from: bytes that are all different, and bytes that are
\* all the same.
Views ==
  {[k \in 1..n |-> (37 * k + 200) % 256] : n \in 0..MaxView}
    \cup {[k \in 1..n |-> 255 - k] : n \in 0..MaxView}
    \cup {[k \in 1..n |-> 128] : n \in 0..MaxView}

\* A caller holds a view of a buffer.
InitDown ==
  /\ overflow_checks \in BOOLEAN
  /\ codefile \in Views
  /\ code = [segment |-> codefile, cursor |-> 0, jtab |-> 0]
  /\ info = NoInfo
  /\ exit_addr = 0
  /\ footer_start = 0
  /\ proc_i = 0
  /\ procs = <<>>
  /\ listing = <<>>
  /\ op_start = 0
  /\ last = NoResult
  /\ pc = "read_down"

\* The caller keeps the view the operation op (with a buf of m words) has
\* left it, and the result r; listing has the calls made.
ReadDown(op, m, r) ==
  /\ Len(listing) < MaxReads
  /\ last' = r
  /\ code' = r.code
  /\ listing' = Append(listing, [op |-> op, m |-> m, view |-> code.segment, result |-> r])
  /\ UNCHANGED <<overflow_checks, codefile, info, exit_addr, footer_start, proc_i, procs,
                 op_start, pc>>

\* view.read_down_u8()
Apply_read_down_u8 ==
  /\ pc = "read_down"
  /\ ReadDown("read_down_u8", 0, read_down_u8(code))

\* view.read_down_u16_le()
Apply_read_down_u16_le ==
  /\ pc = "read_down"
  /\ ReadDown("read_down_u16_le", 0, read_down_u16_le(code))

\* view.read_down_u16_le_into(&mut buf), with buf of m words
Apply_read_down_u16_le_into ==
  /\ pc = "read_down"
  /\ \E m \in 0..MaxWords :
       ReadDown("read_down_u16_le_into", m, read_down_u16_le_into(code, m))

NextDown ==
  \/ Apply_read_down_u8
  \/ Apply_read_down_u16_le
  \/ Apply_read_down_u16_le_into

SpecDown == InitDown /\ [][NextDown]_vars

\* How many bytes a call takes from the end of its view.
Taken(call) ==
  CASE call.op = "read_down_u8" -> 1
    [] call.op = "read_down_u16_le" -> 2
    [] call.op = "read_down_u16_le_into" -> 2 * call.m

\* What a call returns from the n bytes at the end of its view.
TailValue(call, n) ==
  LET at(k) == call.view[Len(call.view) - n + k]
  IN CASE call.op = "read_down_u8" -> at(1)
       [] call.op = "read_down_u16_le" -> at(1) + 256 * at(2)
       [] call.op = "read_down_u16_le_into" ->
            [k \in 1..call.m |-> at(2 * k - 1) + 256 * at(2 * k)]

\* C15: read_down_u8, read_down_u16_le and read_down_u16_le_into (with a buf
\* of m words) on a view of at least 1, 2 or 2 * m bytes return what its last
\* 1, 2 or 2 * m bytes hold (16-bit values little-endian, in the order of
\* their addresses) and take these bytes off its end, the bytes before them
\* staying as they are; on a shorter view they return an error and leave the
\* view as it is. Each call is made on the view the call before it left.
C15_ReadDownShrinks ==
  /\ \A i \in 1..Len(listing) :
       LET call == listing[i]
           n == Taken(call)
       IN /\ call.view = (IF i = 1 THEN codefile ELSE listing[i - 1].result.code.segment)
          /\ IF Len(call.view) >= n
             THEN /\ call.result.st = "ok"
                  /\ call.result.val = TailValue(call, n)
                  /\ call.result.code.segment = SubSeq(call.view, 1, Len(call.view) - n)
             ELSE /\ call.result.st = "err"
                  /\ call.result.val = "UnexpectedEof"
                  /\ call.result.code.segment = call.view
  /\ listing # <<>> => code = listing[Len(listing)].result.code

\* A view of 5 bytes that are all different has been read down by a word, by
\* a buf of one word, and then, with one byte left, by a word that failed.
C15_Witness ==
  /\ Len(listing) = 3
  /\ codefile = <<237, 18, 55, 92, 129>>
  /\ listing[1].op = "read_down_u16_le" /\ listing[1].result.val = 92 + 256 * 129
  /\ listing[2].op = "read_down_u16_le_into" /\ listing[2].result.val = <<18 + 256 * 55>>
  /\ listing[3].op = "read_down_u16_le" /\ listing[3].result.st = "err"
  /\ code.segment = <<237>>

====
